---- MODULE Spec2Model ----
(***************************************************************************)
(* Layered frame buffer and diff-based render engine of the scenery game.  *)
(*                                                                         *)
(* Buffer and renderDiff are modelled from the Map-based buffer with row   *)
(* batching (src/unnamed/part_004, the module render.js loads as           *)
(* './buffer'); Render is modelled from src/src/render/render.js.          *)
(*                                                                         *)
(* JavaScript strings are sequences of one-character strings; a Map keyed  *)
(* by "x,y" is a function whose domain is the set of occupied <<x, y>>.    *)
(***************************************************************************)
EXTENDS Integers, Sequences, FiniteSets, TLC

VARIABLES
    buffers,          \* heap of Buffer objects: id -> [width, height, buffer]
    currentBuffer,    \* Render.currentBuffer  (id of the front grid)
    previousBuffer,   \* Render.previousBuffer (id of the back grid)
    isInitialized,    \* Render.isInitialized
    lastRenderTime,   \* Render.lastRenderTime
    totalRenders,     \* Render.totalRenders
    changeCount,      \* Render.changeCount
    skipRenderCount,  \* Render.skipRenderCount
    clock,            \* last value read from performance.now()
    term,             \* terminal calls made by the render()/renderDiff call
                      \* that is returning (<<>> once it has returned)
    returned,         \* the value that call returns (0 once it has returned)
    threw,            \* TRUE iff the most recent call raised an exception
    call,             \* the call in flight (op = "none" when idle, "returned"
                      \* when its body has run and it returns to its caller)
    hist,             \* history: per coordinate of the front grid, the last
                      \* write among those of maximal z since the last clear
    screen,           \* what the terminal displays: glyph and style by 0-based
                      \* coordinate (a coordinate never printed at is absent)
    termSize,         \* process.stdout.columns and rows: [width, height]
    sinceResize,      \* history: "fresh" once Render.handleResize has run,
                      \* "pending" once a render() has been skipped since,
                      \* "none" once a render() has rendered since
    loop,             \* the GameLoop that drives the controller, its player and
                      \* its NPC (NoLoop where no GameLoop is constructed)
    frameBuffer,      \* the array-based FrameBuffer of src/renderer
                      \* (NoFrameBuffer where none is constructed)
    movement,         \* a MovementController on its own, with its terminal
                      \* and its timers (NoMovement where none is followed)
    npcManager        \* an NPCManager on its own (NoNPCManager where none
                      \* is followed)

vars == <<buffers, currentBuffer, previousBuffer, isInitialized, lastRenderTime,
          totalRenders, changeCount, skipRenderCount, clock, term, returned,
          threw, call, hist, screen, termSize, sinceResize, loop, frameBuffer,
          movement, npcManager>>

----------------------------------------------------------------------------
(* Bounds of the model *)

\* columns and rows of the grids of the controller specifications
Width == 2
Height == 1
\* a draw call is explored only while the front grid holds at most MaxCells cells
MaxCells == 2
\* columns of the one-row grid of the specification of the row emitter
EmitCols == 5
\* render() is called at most MaxRenders times
MaxRenders == 3

----------------------------------------------------------------------------
(* Render: pacing *)

\* this.minimumRenderInterval
minimumRenderInterval == 16
\* this.renderSkipThreshold
renderSkipThreshold == 33

----------------------------------------------------------------------------
(* Characters and style tokens *)

ESC == "\\x1b"

\* the visible glyphs of the legacy sprite format
BlockGlyphs == {"▄", "▀", "█", "▌", "▐", "░", "▒", "▓", "▔", "▕"}

NoAnsi == <<>>
\* "\x1b[1m"
BoldAnsi == <<ESC, "[", "1", "m">>
\* "\x1b[0m"
ResetAnsi == <<ESC, "[", "0", "m">>
\* '\x1b[2 q\x1b[?12l\x1b[?25l'
CursorSetup == <<ESC, "[", "2", " ", "q", ESC, "[", "?", "1", "2", "l",
                 ESC, "[", "?", "2", "5", "l">>

Min(a, b) == IF a < b THEN a ELSE b
Max(a, b) == IF a > b THEN a ELSE b

----------------------------------------------------------------------------
(* Buffer *)

EmptyMap == [k \in {} |-> 0]

\* Map.prototype.set
MapSet(m, k, v) == [q \in DOMAIN m \cup {k} |-> IF q = k THEN v ELSE m[q]]

\* the null returned by _key
Null == <<>>

Buffer(width, height) ==
    [width |-> width, height |-> height, buffer |-> EmptyMap]

\* _key with its upper bounds off by one
_keyOffByOne(b, x, y) ==
    IF x < 0 \/ x > b.width \/ y < 0 \/ y > b.height THEN Null ELSE <<x, y>>

_key(b, x, y) ==
    IF x < 0 \/ x >= b.width \/ y < 0 \/ y >= b.height THEN Null ELSE <<x, y>>

\* setCell without the z-index test: the last writer always wins
setCellLastWins(b, x, y, char, ansi, z) ==
    LET key == _key(b, x, y) IN
    IF key = Null THEN b
    ELSE [b EXCEPT !.buffer = MapSet(@, key, [char |-> char, ansi |-> ansi, z |-> z])]

\* setCell replacing only on a strictly higher z-index
setCellStrict(b, x, y, char, ansi, z) ==
    LET key == _key(b, x, y) IN
    IF key = Null THEN b
    ELSE IF key \notin DOMAIN b.buffer \/ z > b.buffer[key].z
         THEN [b EXCEPT !.buffer = MapSet(@, key, [char |-> char, ansi |-> ansi, z |-> z])]
         ELSE b

setCell(b, x, y, char, ansi, z) ==
    LET key == _key(b, x, y) IN
    IF key = Null THEN b
    ELSE LET existing == key \in DOMAIN b.buffer IN
         IF ~existing \/ z >= b.buffer[key].z
         THEN IF existing /\ b.buffer[key].char = char
                  /\ b.buffer[key].ansi = ansi /\ b.buffer[key].z = z
              THEN b
              ELSE [b EXCEPT !.buffer =
                       MapSet(@, key, [char |-> char, ansi |-> ansi, z |-> z])]
         ELSE b

clear(b) == [b EXCEPT !.buffer = EmptyMap]

\* A setCell call, as issued by a writer
SetCellCall(x, y, char, ansi, z) ==
    [x |-> x, y |-> y, char |-> char, ansi |-> ansi, z |-> z]

\* the setCell calls in `calls`, applied in order
RECURSIVE ApplySetCells(_, _)
ApplySetCells(b, calls) ==
    IF calls = <<>> THEN b
    ELSE ApplySetCells(
             setCell(b, calls[1].x, calls[1].y, calls[1].char, calls[1].ansi, calls[1].z),
             Tail(calls))

\* the loop that writes nothing when a character falls beyond the last column
setTextCallsAllOrNothing(b, x, y, text, ansi, z) ==
    IF x + Len(text) > b.width THEN <<>>
    ELSE [i \in 1..Len(text) |-> SetCellCall(x + i - 1, y, text[i], ansi, z)]

\* setText: the setCell calls of its loop
setTextCalls(b, x, y, text, ansi, z) ==
    LET all == [i \in 1..Len(text) |-> SetCellCall(x + i - 1, y, text[i], ansi, z)]
    IN SelectSeq(all, LAMBDA c : c.x < b.width)

setText(b, x, y, text, ansi, z) ==
    ApplySetCells(b, setTextCalls(b, x, y, text, ansi, z))

----------------------------------------------------------------------------
(* Sprites *)

\* String.prototype.includes
Includes(s, pat) ==
    \E p \in 1..(Len(s) - Len(pat) + 1) : SubSeq(s, p, p + Len(pat) - 1) = pat

Digits == <<"0", "1", "2", "3", "4", "5", "6", "7", "8", "9">>

IsDigit(c) == \E d \in 1..10 : Digits[d] = c

DigitValue(c) == (CHOOSE d \in 1..10 : Digits[d] = c) - 1

\* parseInt of a string of decimal digits
RECURSIVE ParseInt(_)
ParseInt(s) ==
    IF s = <<>> THEN 0
    ELSE 10 * ParseInt(SubSeq(s, 1, Len(s) - 1)) + DigitValue(s[Len(s)])

\* index of the last character of the run of digits that starts at p (p - 1 if none)
RECURSIVE DigitsEnd(_, _)
DigitsEnd(s, p) ==
    IF p <= Len(s) /\ IsDigit(s[p]) THEN DigitsEnd(s, p + 1) ELSE p - 1

\* /48;2;(\d+);(\d+);(\d+)m/ matched at position p: <<r, g, b>> as parsed by
\* parseInt, or <<>> when the pattern does not match there
MatchBackgroundAt(s, p) ==
    IF p + 4 > Len(s) \/ SubSeq(s, p, Min(p + 4, Len(s))) # <<"4", "8", ";", "2", ";">>
    THEN <<>>
    ELSE LET e1 == DigitsEnd(s, p + 5)
             e2 == DigitsEnd(s, e1 + 2)
             e3 == DigitsEnd(s, e2 + 2)
         IN IF /\ e1 >= p + 5 /\ e1 + 1 <= Len(s) /\ s[e1 + 1] = ";"
               /\ e2 >= e1 + 2 /\ e2 + 1 <= Len(s) /\ s[e2 + 1] = ";"
               /\ e3 >= e2 + 2 /\ e3 + 1 <= Len(s) /\ s[e3 + 1] = "m"
            THEN << ParseInt(SubSeq(s, p + 5, e1)),
                    ParseInt(SubSeq(s, e1 + 2, e2)),
                    ParseInt(SubSeq(s, e2 + 2, e3)) >>
            ELSE <<>>

\* ansi.match(/48;2;(\d+);(\d+);(\d+)m/): the leftmost match, or <<>>
MatchBackground(s) ==
    LET hits == {p \in 1..Len(s) : MatchBackgroundAt(s, p) # <<>>}
    IN IF hits = {} THEN <<>>
       ELSE MatchBackgroundAt(s, CHOOSE p \in hits : \A q \in hits : p <= q)

isBackgroundOnly(ansi) ==
    IF ansi = <<>> THEN FALSE
    ELSE LET hasBackground == Includes(ansi, <<"4", "8", ";", "2", ";">>)
             hasForeground == Includes(ansi, <<"3", "8", ";", "2", ";">>)
             bgMatch == MatchBackground(ansi)
         IN /\ hasBackground /\ ~hasForeground
            /\ bgMatch # <<>>
            /\ bgMatch[1] <= 10 /\ bgMatch[2] <= 10 /\ bgMatch[3] <= 10

\* A sprite payload is [type |-> "array", items |-> <<...>>] or a value that is
\* not an array, [type |-> "other"].  An item of the array is a row of styled
\* text, [type |-> "string", str |-> <<...>>], or a cell record,
\* [type |-> "object", x |-> , y |-> , char |-> , ansi |-> , has |-> ], where
\* `has` is the set of its fields that are present with the type setCellArray
\* asks for, or null, [type |-> "null"].
StringItem(str) == [type |-> "string", str |-> str]
CellFields == {"x", "y", "char", "ansi"}
PartialItem(x, y, char, ansi, has) ==
    [type |-> "object", x |-> x, y |-> y, char |-> char, ansi |-> ansi, has |-> has]
CellItem(x, y, char, ansi) == PartialItem(x, y, char, ansi, CellFields)
NullItem == [type |-> "null"]
ArraySprite(items) == [type |-> "array", items |-> items]
NotAnArray == [type |-> "other"]

\* the scan that takes the escape marker alone for the escape sequence
FindTerminatorAtMarker(line, j) == j

\* index of the first "m" of line at or after i (Len(line) + 1 if there is none)
RECURSIVE FindTerminator(_, _)
FindTerminator(line, j) ==
    IF j <= Len(line) /\ line[j] # "m" THEN FindTerminator(line, j + 1) ELSE j

\* the row loop in which a space does not advance the column
RECURSIVE parseLineSpaceless(_, _, _, _, _, _)
parseLineSpaceless(line, i, screenX, currentAnsi, screenY, z) ==
    IF i > Len(line) THEN <<>>
    ELSE IF line[i] = ESC
         THEN LET j == FindTerminator(line, i)
              IN parseLineSpaceless(line, j + 1, screenX,
                                    SubSeq(line, i, Min(j, Len(line))), screenY, z)
         ELSE IF line[i] \in BlockGlyphs
              THEN <<SetCellCall(screenX, screenY, line[i], currentAnsi, z)>>
                   \o parseLineSpaceless(line, i + 1, screenX + 1, currentAnsi,
                                         screenY, z)
              ELSE parseLineSpaceless(line, i + 1, screenX, currentAnsi, screenY, z)

\* the while loop over one legacy row, from index i on: its setCell calls
RECURSIVE parseLine(_, _, _, _, _, _)
parseLine(line, i, screenX, currentAnsi, screenY, z) ==
    IF i > Len(line) THEN <<>>
    ELSE IF line[i] = ESC
         THEN LET j == FindTerminator(line, i)
              IN parseLine(line, j + 1, screenX,
                           SubSeq(line, i, Min(j, Len(line))), screenY, z)
         ELSE IF line[i] \in BlockGlyphs
              THEN <<SetCellCall(screenX, screenY, line[i], currentAnsi, z)>>
                   \o parseLine(line, i + 1, screenX + 1, currentAnsi, screenY, z)
              ELSE IF line[i] = " "
                   THEN parseLine(line, i + 1, screenX + 1, currentAnsi, screenY, z)
                   ELSE parseLine(line, i + 1, screenX, currentAnsi, screenY, z)

\* the legacy loop that enters each row with a bold current style
RECURSIVE legacyCallsStyled(_, _, _, _, _)
legacyCallsStyled(items, spriteY, x, y, z) ==
    IF spriteY > Len(items) \/ items[spriteY].type = "null" THEN <<>>
    ELSE (IF items[spriteY].type = "string"
          THEN parseLine(items[spriteY].str, 1, x, BoldAnsi, y + spriteY - 1, z)
          ELSE <<>>)
         \o legacyCallsStyled(items, spriteY + 1, x, y, z)

\* the legacy rows from index spriteY (1-based) on; the loop ends at a null
\* row, whose line.length is a TypeError, and passes over a row that is an
\* object, whose line.length is undefined
RECURSIVE legacyCalls(_, _, _, _, _)
legacyCalls(items, spriteY, x, y, z) ==
    IF spriteY > Len(items) \/ items[spriteY].type = "null" THEN <<>>
    ELSE (IF items[spriteY].type = "string"
          THEN parseLine(items[spriteY].str, 1, x, NoAnsi, y + spriteY - 1, z)
          ELSE <<>>)
         \o legacyCalls(items, spriteY + 1, x, y, z)

\* setCellArray: the updates it collects, which it then applies in order
setCellArrayCalls(offsetX, offsetY, cellArray, z) ==
    LET wellFormed == SelectSeq(cellArray.items,
                          LAMBDA cell : /\ cell.type = "object"
                                        /\ cell.has = CellFields
                                        /\ ~isBackgroundOnly(cell.ansi))
    IN [i \in 1..Len(wellFormed) |->
           SetCellCall(offsetX + wellFormed[i].x, offsetY + wellFormed[i].y,
                       wellFormed[i].char, wellFormed[i].ansi, z)]

\* typeof sprite[0] === 'object' && sprite[0].hasOwnProperty('x')
IsCellFormat(sprite) ==
    /\ Len(sprite.items) > 0
    /\ sprite.items[1].type = "object"
    /\ "x" \in sprite.items[1].has

\* the setCell calls setSprite makes (up to the TypeError, if it raises one)
setSpriteCalls(x, y, sprite, z) ==
    IF sprite.type # "array" THEN <<>>
    ELSE IF Len(sprite.items) > 0 /\ sprite.items[1].type = "null" THEN <<>>
    ELSE IF IsCellFormat(sprite)
         THEN setCellArrayCalls(x, y, sprite, z)
         ELSE legacyCalls(sprite.items, 1, x, y, z)

\* setSprite raises a TypeError: hasOwnProperty of a null first element, or
\* length of a null row of the legacy loop
setSpriteThrows(sprite) ==
    /\ sprite.type = "array"
    /\ Len(sprite.items) > 0
    /\ \/ sprite.items[1].type = "null"
       \/ /\ ~IsCellFormat(sprite)
          /\ \E i \in 1..Len(sprite.items) : sprite.items[i].type = "null"

setSprite(b, x, y, sprite, z) == ApplySetCells(b, setSpriteCalls(x, y, sprite, z))

----------------------------------------------------------------------------
(* Render: the draw calls *)

\* the loops that write their blanks two layers above the given z-index
clearAreaCallsForced(b, x, y, width, height, z) ==
    LET all == [k \in 1..(width * height) |->
                   SetCellCall(x + ((k - 1) % width), y + ((k - 1) \div width),
                               " ", NoAnsi, z + 2)]
    IN SelectSeq(all, LAMBDA c : c.x >= 0 /\ c.x < b.width
                                 /\ c.y >= 0 /\ c.y < b.height)

\* clearArea: the setCell calls of its two loops, row by row
clearAreaCalls(b, x, y, width, height, z) ==
    LET all == [k \in 1..(width * height) |->
                   SetCellCall(x + ((k - 1) % width), y + ((k - 1) \div width),
                               " ", NoAnsi, z)]
    IN SelectSeq(all, LAMBDA c : c.x >= 0 /\ c.x < b.width
                                 /\ c.y >= 0 /\ c.y < b.height)

----------------------------------------------------------------------------
(* renderDiff *)

\* term.moveTo(x, y) and term(data)
MoveTo(x, y) == [op |-> "moveTo", x |-> x, y |-> y]
Write(data) == [op |-> "write", data |-> data]

\* the diff whose comparison also looks at the z-index
DiffKeysWithZ(current, previous) ==
    {k \in DOMAIN current.buffer :
        LET cell == current.buffer[k]
            hasPrev == k \in DOMAIN previous.buffer
        IN /\ \/ ~hasPrev
              \/ previous.buffer[k] # cell
           /\ ~(cell.char = " " /\ cell.ansi = <<>> /\ ~hasPrev)}

\* the diff that reports every cell of the current grid
DiffKeysAll(current, previous) == DOMAIN current.buffer

\* the diff that skips every space of empty style
DiffKeysSkippingBlanks(current, previous) ==
    {k \in DOMAIN current.buffer :
        LET cell == current.buffer[k]
            hasPrev == k \in DOMAIN previous.buffer
        IN /\ \/ ~hasPrev
              \/ previous.buffer[k].char # cell.char
              \/ previous.buffer[k].ansi # cell.ansi
           /\ ~(cell.char = " " /\ cell.ansi = <<>>)}

\* the keys the loop over current's entries records as changes
DiffKeys(current, previous) ==
    {k \in DOMAIN current.buffer :
        LET cell == current.buffer[k]
            hasPrev == k \in DOMAIN previous.buffer
        IN /\ \/ ~hasPrev
              \/ previous.buffer[k].char # cell.char
              \/ previous.buffer[k].ansi # cell.ansi
           /\ ~(cell.char = " " /\ cell.ansi = <<>> /\ ~hasPrev)}

\* Array.prototype.sort with (a, b) => a - b, on distinct integers
RECURSIVE SortAscending(_)
SortAscending(S) ==
    IF S = {} THEN <<>>
    ELSE LET m == CHOOSE a \in S : \A b \in S : a <= b
         IN <<m>> \o SortAscending(S \ {m})

\* the flush that gives the row first to term.moveTo
FlushRowFirst(currentX, y, currentAnsi, batchedChars) ==
    IF batchedChars # <<>>
    THEN << MoveTo(y + 1, currentX + 1),
            Write(currentAnsi \o batchedChars \o ResetAnsi) >>
    ELSE <<>>

\* the flush of a batch: one cursor move and one write
Flush(currentX, y, currentAnsi, batchedChars) ==
    IF batchedChars # <<>>
    THEN << MoveTo(currentX + 1, y + 1),
            Write(currentAnsi \o batchedChars \o ResetAnsi) >>
    ELSE <<>>

\* the batching loop over the sorted changes of row y, from the i-th on
RECURSIVE emitRow(_, _, _, _, _, _, _)
emitRow(current, y, xs, i, currentAnsi, currentX, batchedChars) ==
    IF i > Len(xs) THEN Flush(currentX, y, currentAnsi, batchedChars)
    ELSE LET cell == current.buffer[<<xs[i], y>>]
             flush == currentX # -1
                      /\ (xs[i] # currentX + 1 \/ cell.ansi # currentAnsi)
             batched == IF flush THEN <<>> ELSE batchedChars
             start == batched = <<>>
         IN (IF flush THEN Flush(currentX, y, currentAnsi, batchedChars) ELSE <<>>)
            \o emitRow(current, y, xs, i + 1,
                       IF start THEN cell.ansi ELSE currentAnsi,
                       IF start THEN xs[i] ELSE currentX,
                       batched \o <<cell.char>>)

\* the loop over the sorted rows, from the r-th on
RECURSIVE emitRows(_, _, _, _)
emitRows(current, changed, rows, r) ==
    IF r > Len(rows) THEN <<>>
    ELSE emitRow(current, rows[r],
                 SortAscending({k[1] : k \in {q \in changed : q[2] = rows[r]}}),
                 1, NoAnsi, -1, <<>>)
         \o emitRows(current, changed, rows, r + 1)

\* the diff that walks the entries of the previous grid
renderDiffOfPrevious(current, previous) ==
    LET changed == DiffKeys(previous, current)
        changes == Cardinality(changed)
    IN [changes |-> changes,
        term |-> <<Write(CursorSetup)>>
                 \o (IF changes = 0 THEN <<>>
                     ELSE emitRows(previous, changed,
                                   SortAscending({k[2] : k \in changed}), 1))]

\* the diff that returns the number of rows it has written
renderDiffCountingRows(current, previous) ==
    LET changed == DiffKeys(current, previous)
    IN [changes |-> Cardinality({k[2] : k \in changed}),
        term |-> <<Write(CursorSetup)>>
                 \o (IF changed = {} THEN <<>>
                     ELSE emitRows(current, changed,
                                   SortAscending({k[2] : k \in changed}), 1))]

\* renderDiff(current, previous, term): its return value and its terminal calls
renderDiff(current, previous) ==
    LET changed == DiffKeys(current, previous)
        changes == Cardinality(changed)
    IN [changes |-> changes,
        term |-> <<Write(CursorSetup)>>
                 \o (IF changes = 0 THEN <<>>
                     ELSE emitRows(current, changed,
                                   SortAscending({k[2] : k \in changed}), 1))]

----------------------------------------------------------------------------
(* The terminal: what a sequence of terminal calls puts on the screen *)

\* the final bytes of the control sequences the program writes
FinalBytes == {"m", "q", "l"}

\* index of the final byte of the control sequence that starts at data[i]
RECURSIVE SequenceEnd(_, _)
SequenceEnd(data, j) ==
    IF j > Len(data) THEN Len(data)
    ELSE IF data[j] \in FinalBytes THEN j
    ELSE SequenceEnd(data, j + 1)

\* the terminal receives data[i..]: t = [x, y, style, screen], 0-based cursor
RECURSIVE Receive(_, _, _)
Receive(t, data, i) ==
    IF i > Len(data) THEN t
    ELSE IF data[i] = ESC
    THEN LET j == SequenceEnd(data, i + 1)
             seq == SubSeq(data, i, j)
         IN Receive(IF data[j] # "m" THEN t
                    ELSE IF seq = ResetAnsi THEN [t EXCEPT !.style = <<>>]
                    ELSE [t EXCEPT !.style = @ \o seq],
                    data, j + 1)
    ELSE Receive([t EXCEPT !.x = @ + 1,
                           !.screen = MapSet(@, <<t.x, t.y>>,
                                             [char |-> data[i], ansi |-> t.style])],
                 data, i + 1)

RECURSIVE Terminal(_, _, _)
Terminal(t, calls, n) ==
    IF n > Len(calls) THEN t
    ELSE Terminal(IF calls[n].op = "moveTo"
                  THEN [t EXCEPT !.x = calls[n].x - 1, !.y = calls[n].y - 1]
                  ELSE Receive(t, calls[n].data, 1),
                  calls, n + 1)

\* the display `shown` after the terminal has received `calls`
Display(shown, calls) ==
    Terminal([x |-> 0, y |-> 0, style |-> <<>>, screen |-> shown], calls, 1).screen

\* the glyphs a sequence of terminal calls prints, by 0-based coordinate
Printed(calls) == Display(EmptyMap, calls)

\* glyph and style of a cell
Visible(cell) == [char |-> cell.char, ansi |-> cell.ansi]

----------------------------------------------------------------------------
(* State after new Render(terminalRenderer) *)

NoCall == [op |-> "none"]

\* no GameLoop and no array-based FrameBuffer have been constructed
NoLoop == [made |-> FALSE]
NoFrameBuffer == [made |-> FALSE]
NoMovement == [made |-> FALSE]
NoNPCManager == [made |-> FALSE]

\* the null reference cleanup() stores in currentBuffer and previousBuffer
NoBuffer == 0

Init ==
    /\ buffers = [id \in {1, 2} |-> Buffer(Width, Height)]
    /\ currentBuffer = 1
    /\ previousBuffer = 2
    /\ isInitialized = TRUE
    /\ lastRenderTime = 0
    /\ totalRenders = 0
    /\ changeCount = 0
    /\ skipRenderCount = 0
    /\ clock = 0
    /\ term = <<>>
    /\ returned = 0
    /\ threw = FALSE
    /\ call = NoCall
    /\ hist = EmptyMap
    /\ screen = EmptyMap
    /\ termSize = [width |-> Width, height |-> Height + 3]
    /\ sinceResize = "none"
    /\ loop = NoLoop
    /\ frameBuffer = NoFrameBuffer
    /\ movement = NoMovement
    /\ npcManager = NoNPCManager

Front == buffers[currentBuffer]
Back == buffers[previousBuffer]

----------------------------------------------------------------------------
(* History of the writes issued to the front grid *)

\* the record of one setCell call, kept per coordinate of the w x ht grid
HistWrite(h, w, ht, c) ==
    IF c.x < 0 \/ c.x >= w \/ c.y < 0 \/ c.y >= ht THEN h
    ELSE LET k == <<c.x, c.y>>
             cell == [char |-> c.char, ansi |-> c.ansi, z |-> c.z]
         IN IF k \in DOMAIN h /\ c.z < h[k].z THEN h ELSE MapSet(h, k, cell)

RECURSIVE HistWrites(_, _, _, _)
HistWrites(h, w, ht, calls) ==
    IF calls = <<>> THEN h
    ELSE HistWrites(HistWrite(h, w, ht, calls[1]), w, ht, Tail(calls))

\* how a setCell call meets the grid it is issued to
CaseOf(b, c) ==
    IF c.x < 0 \/ c.x >= b.width \/ c.y < 0 \/ c.y >= b.height THEN "outside"
    ELSE IF <<c.x, c.y>> \notin DOMAIN b.buffer THEN "free"
    ELSE IF c.z > b.buffer[<<c.x, c.y>>].z THEN "above"
    ELSE IF c.z = b.buffer[<<c.x, c.y>>].z THEN "level"
    ELSE "below"

----------------------------------------------------------------------------
(* Inputs of the draw calls *)

Xs == -1..Width
Ys == -1..Height
ZIndexes == {0, 1, 2}
\* glyph and style of a write
Inks == { [char |-> "█", ansi |-> NoAnsi], [char |-> "▒", ansi |-> BoldAnsi] }
Texts == { [text |-> <<"█">>, ansi |-> NoAnsi],
           [text |-> <<"▒", "▒">>, ansi |-> BoldAnsi] }
Sprites ==
    { NotAnArray,
      ArraySprite(<<StringItem(<<"█">>)>>),
      ArraySprite(<<StringItem(<<" ", "█">>), StringItem(BoldAnsi \o <<"▒">>)>>),
      ArraySprite(<<CellItem(0, 0, "█", NoAnsi), CellItem(1, 0, "▒", BoldAnsi)>>) }

----------------------------------------------------------------------------
(* Render: the draw calls.  Each but clearArea is a no-op on a released    *)
(* controller.                                                             *)

\* the writes that land in the back grid
WroteToBack(calls, throws) ==
    /\ buffers' = [buffers EXCEPT ![previousBuffer] = ApplySetCells(@, calls)]
    /\ hist' = HistWrites(hist, Front.width, Front.height, calls)
    /\ threw' = throws
    /\ UNCHANGED <<currentBuffer, previousBuffer, isInitialized, lastRenderTime,
                   totalRenders, changeCount, skipRenderCount, clock, term, returned,
                   screen, termSize, sinceResize,
                   loop, movement, npcManager, frameBuffer>>

\* the front grid receives `calls`
Wrote(calls, throws) ==
    /\ buffers' = [buffers EXCEPT ![currentBuffer] = ApplySetCells(@, calls)]
    /\ hist' = HistWrites(hist, Front.width, Front.height, calls)
    /\ threw' = throws
    /\ UNCHANGED <<currentBuffer, previousBuffer, isInitialized, lastRenderTime,
                   totalRenders, changeCount, skipRenderCount, clock, term, returned,
                   screen, termSize, sinceResize,
                   loop, movement, npcManager, frameBuffer>>

\* the front grid receives `calls`; explored while it stays within MaxCells
DrawThenThrow(calls, throws) ==
    /\ buffers' = [buffers EXCEPT ![currentBuffer] = ApplySetCells(@, calls)]
    /\ Cardinality(DOMAIN buffers'[currentBuffer].buffer) <= MaxCells
    /\ hist' = HistWrites(hist, Front.width, Front.height, calls)
    /\ threw' = throws
    /\ UNCHANGED <<currentBuffer, previousBuffer, isInitialized, lastRenderTime,
                   totalRenders, changeCount, skipRenderCount, clock, term, returned,
                   screen, termSize, sinceResize,
                   loop, movement, npcManager, frameBuffer>>

Draw(calls) == DrawThenThrow(calls, FALSE)

Untouched ==
    /\ threw' = FALSE
    /\ UNCHANGED <<buffers, currentBuffer, previousBuffer, isInitialized,
                   lastRenderTime, totalRenders, changeCount, skipRenderCount,
                   clock, term, returned, hist, screen, termSize, sinceResize,
                   loop, movement, npcManager, frameBuffer>>

\* the call raises a TypeError before it has changed anything
Throws ==
    /\ threw' = TRUE
    /\ UNCHANGED <<buffers, currentBuffer, previousBuffer, isInitialized,
                   lastRenderTime, totalRenders, changeCount, skipRenderCount,
                   clock, term, returned, hist, screen, termSize, sinceResize,
                   loop, movement, npcManager, frameBuffer>>

\* a caller invokes renderChar(x, y, char, ansi, z), (x, y) among `points`
CallRenderCharAt(points, zs) ==
    /\ call = NoCall
    /\ \E p \in points, ink \in Inks, z \in zs :
          call' = [op |-> "renderChar", x |-> p[1], y |-> p[2],
                   char |-> ink.char, ansi |-> ink.ansi, z |-> z]
    /\ UNCHANGED <<buffers, currentBuffer, previousBuffer, isInitialized,
                   lastRenderTime, totalRenders, changeCount, skipRenderCount,
                   clock, term, returned, threw, hist, screen, termSize,
                   sinceResize,
                   loop, movement, npcManager, frameBuffer>>

\* the body of renderChar runs
RenderChar ==
    /\ call.op = "renderChar"
    /\ IF ~isInitialized THEN Untouched
       ELSE Draw(<<SetCellCall(call.x, call.y, call.char, call.ansi, call.z)>>)
    /\ call' = [op |-> "returned", from |-> "renderChar",
                case |-> IF isInitialized THEN CaseOf(Front, call) ELSE "released"]

\* renderChar returns to its caller
ReturnRenderChar ==
    /\ call.op = "returned" /\ call.from = "renderChar"
    /\ call' = NoCall
    /\ UNCHANGED <<buffers, currentBuffer, previousBuffer, isInitialized,
                   lastRenderTime, totalRenders, changeCount, skipRenderCount,
                   clock, term, returned, threw, hist, screen, termSize,
                   sinceResize,
                   loop, movement, npcManager, frameBuffer>>

RenderText ==
    /\ call = NoCall
    /\ \E x \in Xs, y \in Ys, t \in Texts, z \in ZIndexes :
          IF ~isInitialized \/ t.text = <<>> THEN Untouched
          ELSE Draw(setTextCalls(Front, x, y, t.text, t.ansi, z))
    /\ UNCHANGED call

RenderSprite ==
    /\ call = NoCall
    /\ \E x \in Xs, y \in Ys, sprite \in Sprites, z \in ZIndexes :
          IF ~isInitialized THEN Untouched
          ELSE DrawThenThrow(setSpriteCalls(x, y, sprite, z),
                             setSpriteThrows(sprite))
    /\ UNCHANGED call

\* clearArea(x, y, width, height, z), (x, y) among `points`
\* (it reads this.currentBuffer.width without a test of isInitialized, which
\* is a TypeError once cleanup() has set currentBuffer to null)
ClearAreaAt(points, ws, hs, zs) ==
    /\ call = NoCall
    /\ \E p \in points, w \in ws, h \in hs, z \in zs :
          IF currentBuffer = NoBuffer
          THEN IF w > 0 /\ h > 0 THEN Throws ELSE Untouched
          ELSE Draw(clearAreaCalls(Front, p[1], p[2], w, h, z))
    /\ UNCHANGED call

CallRenderChar == CallRenderCharAt(Xs \X Ys, ZIndexes)
ClearArea == ClearAreaAt(Xs \X Ys, {1, Width}, {1, Height}, ZIndexes)

Clear ==
    /\ call = NoCall
    /\ IF ~isInitialized THEN Untouched
       ELSE /\ buffers' = [buffers EXCEPT ![currentBuffer] = clear(@)]
            /\ hist' = EmptyMap
            /\ threw' = FALSE
            /\ UNCHANGED <<currentBuffer, previousBuffer, isInitialized,
                           lastRenderTime, totalRenders, changeCount,
                           skipRenderCount, clock, term, returned, screen,
                           termSize, sinceResize,
                           loop, movement, npcManager, frameBuffer>>
    /\ UNCHANGED call

----------------------------------------------------------------------------
(* Render: render() *)

\* the exchange that skips the clearing of the new front grid
swapBuffersUncleared(bufs, cur, prev) ==
    [buffers |-> bufs, currentBuffer |-> prev, previousBuffer |-> cur]

\* the exchange of the two grids and the clearing of the new front grid
swapBuffers(bufs, cur, prev) ==
    [buffers |-> [bufs EXCEPT ![prev] = clear(@)],
     currentBuffer |-> prev, previousBuffer |-> cur]

\* the milliseconds performance.now() may have advanced since it was last read
Elapses == {0, minimumRenderInterval, renderSkipThreshold}

\* a skip that empties the front grid
SkipRenderClearing ==
    /\ skipRenderCount' = skipRenderCount + 1
    /\ returned' = 0
    /\ term' = <<>>
    /\ call' = [op |-> "returned", from |-> "render", case |-> "skipped"]
    /\ sinceResize' = IF sinceResize = "fresh" THEN "pending" ELSE sinceResize
    /\ buffers' = [buffers EXCEPT ![currentBuffer] = clear(@)]
    /\ hist' = EmptyMap
    /\ UNCHANGED <<currentBuffer, previousBuffer, isInitialized, lastRenderTime,
                   totalRenders, changeCount, screen, termSize,
                   loop, movement, npcManager, frameBuffer>>

\* a skip that is not counted
SkipRenderUncounted ==
    /\ returned' = 0
    /\ term' = <<>>
    /\ call' = [op |-> "returned", from |-> "render", case |-> "skipped"]
    /\ sinceResize' = IF sinceResize = "fresh" THEN "pending" ELSE sinceResize
    /\ UNCHANGED <<buffers, currentBuffer, previousBuffer, isInitialized,
                   lastRenderTime, totalRenders, changeCount, hist, screen,
                   termSize, skipRenderCount,
                   loop, movement, npcManager, frameBuffer>>

\* either skip branch of render(): skipRenderCount++ and return 0
SkipRender ==
    /\ skipRenderCount' = skipRenderCount + 1
    /\ returned' = 0
    /\ term' = <<>>
    /\ call' = [op |-> "returned", from |-> "render", case |-> "skipped"]
    /\ sinceResize' = IF sinceResize = "fresh" THEN "pending" ELSE sinceResize
    /\ UNCHANGED <<buffers, currentBuffer, previousBuffer, isInitialized,
                   lastRenderTime, totalRenders, changeCount, hist, screen,
                   termSize,
                   loop, movement, npcManager, frameBuffer>>

Render ==
    /\ call = NoCall
    /\ totalRenders + skipRenderCount < MaxRenders
    /\ threw' = FALSE
    /\ IF ~isInitialized
       THEN /\ returned' = 0
            /\ term' = <<>>
            /\ call' = [op |-> "returned", from |-> "render", case |-> "released"]
            /\ UNCHANGED <<buffers, currentBuffer, previousBuffer, isInitialized,
                           lastRenderTime, totalRenders, changeCount,
                           skipRenderCount, clock, hist, screen, termSize,
                           sinceResize,
                           loop, movement, npcManager, frameBuffer>>
       ELSE \E d \in Elapses :
            LET currentTime == clock + d IN
            /\ clock' = currentTime
            /\ IF \/ currentTime - lastRenderTime < minimumRenderInterval
                  \/ currentTime - lastRenderTime < renderSkipThreshold
               THEN SkipRender
               ELSE LET diff == renderDiff(Front, Back)
                        swap == swapBuffers(buffers, currentBuffer, previousBuffer)
                    IN /\ lastRenderTime' = currentTime
                       /\ totalRenders' = totalRenders + 1
                       /\ term' = diff.term
                       /\ changeCount' = changeCount + diff.changes
                       /\ buffers' = swap.buffers
                       /\ currentBuffer' = swap.currentBuffer
                       /\ previousBuffer' = swap.previousBuffer
                       /\ hist' = EmptyMap
                       /\ returned' = diff.changes
                       /\ call' = [op |-> "returned", from |-> "render",
                                   case |-> "rendered"]
                       /\ screen' = Display(screen, diff.term)
                       /\ sinceResize' = "none"
                       /\ UNCHANGED <<isInitialized, skipRenderCount, termSize,
                                      loop, movement, npcManager, frameBuffer>>

\* render() returns to its caller
ReturnRender ==
    /\ call.op = "returned" /\ call.from = "render"
    /\ call' = NoCall
    /\ term' = <<>>
    /\ returned' = 0
    /\ UNCHANGED <<buffers, currentBuffer, previousBuffer, isInitialized,
                   lastRenderTime, totalRenders, changeCount, skipRenderCount,
                   clock, threw, hist, screen, termSize, sinceResize,
                   loop, movement, npcManager, frameBuffer>>

----------------------------------------------------------------------------
(* Render: handleResize() and cleanup(); the terminal's resize event *)

\* a resize that allocates the front grid only
resizedBuffersKeepingBack(size) ==
    [buffers EXCEPT ![1] = Buffer(size.width, size.height - 3)]

\* the two Buffers handleResize allocates for a terminal of the given size
resizedBuffers(size) ==
    [id \in {1, 2} |-> Buffer(size.width, size.height - 3)]

\* handleResize(): it reads the terminal's size and allocates both grids anew
HandleResize ==
    /\ call = NoCall
    /\ buffers' = resizedBuffers(termSize)
    /\ currentBuffer' = 1
    /\ previousBuffer' = 2
    /\ hist' = EmptyMap
    /\ sinceResize' = "fresh"
    /\ threw' = FALSE
    /\ call' = [op |-> "returned", from |-> "handleResize", case |-> "resized"]
    /\ UNCHANGED <<isInitialized, lastRenderTime, totalRenders, changeCount,
                   skipRenderCount, clock, term, returned, screen, termSize,
                   loop, movement, npcManager, frameBuffer>>

\* handleResize() returns to its caller
ReturnHandleResize ==
    /\ call.op = "returned" /\ call.from = "handleResize"
    /\ call' = NoCall
    /\ UNCHANGED <<buffers, currentBuffer, previousBuffer, isInitialized,
                   lastRenderTime, totalRenders, changeCount, skipRenderCount,
                   clock, term, returned, threw, hist, screen, termSize,
                   sinceResize,
                   loop, movement, npcManager, frameBuffer>>

\* cleanup()
Cleanup ==
    /\ call = NoCall
    /\ isInitialized' = FALSE
    /\ currentBuffer' = NoBuffer
    /\ previousBuffer' = NoBuffer
    /\ hist' = EmptyMap
    /\ threw' = FALSE
    /\ UNCHANGED <<buffers, lastRenderTime, totalRenders, changeCount,
                   skipRenderCount, clock, term, returned, call, screen,
                   termSize, sinceResize,
                   loop, movement, npcManager, frameBuffer>>

\* the sizes the terminal may take
TermSizes == {[width |-> w, height |-> Height + 3] : w \in {Width - 1, Width}}

\* process.stdout emits 'resize': the handler TerminalRender registered runs;
\* it clears the screen if the size it reads 100 ms later differs from the
\* size it read when the event arrived, and calls nothing of Render
OnResize ==
    /\ call = NoCall
    /\ \E size \in TermSizes \ {termSize} : termSize' = size
    /\ \E cleared \in BOOLEAN : screen' = IF cleared THEN EmptyMap ELSE screen
    /\ UNCHANGED <<buffers, currentBuffer, previousBuffer, isInitialized,
                   lastRenderTime, totalRenders, changeCount, skipRenderCount,
                   clock, term, returned, threw, call, hist, sinceResize,
                   loop, movement, npcManager, frameBuffer>>

----------------------------------------------------------------------------
(* The frame loop: draw calls and render() *)

\* the coordinates the frame loop draws at
FramePoints == {<<0, 0>>, <<Width - 1, Height - 1>>, <<Width, 0>>}

TickRenderChar == CallRenderCharAt(FramePoints, {0, 1})
TickClearArea == ClearAreaAt(FramePoints, {1}, {1}, {0})

Next ==
    \/ TickRenderChar
    \/ RenderChar
    \/ ReturnRenderChar
    \/ TickClearArea
    \/ Clear
    \/ Render
    \/ ReturnRender

Spec == Init /\ [][Next]_vars

----------------------------------------------------------------------------
(* The life of the controller: frames, resizes and release *)

LifeRenderChar == CallRenderCharAt(FramePoints, {0})

LifeNext ==
    \/ LifeRenderChar
    \/ RenderChar
    \/ ReturnRenderChar
    \/ TickClearArea
    \/ Render
    \/ ReturnRender
    \/ HandleResize
    \/ ReturnHandleResize
    \/ OnResize
    \/ Cleanup

SpecLife == Init /\ [][LifeNext]_vars

----------------------------------------------------------------------------
(* renderDiff applied to a pair of grids *)

\* the cells of the grids handed to renderDiff
DiffCells ==
    { [char |-> "█", ansi |-> NoAnsi, z |-> 0],
      [char |-> "█", ansi |-> NoAnsi, z |-> 1],
      [char |-> "▒", ansi |-> NoAnsi, z |-> 0],
      [char |-> "█", ansi |-> BoldAnsi, z |-> 0],
      [char |-> " ", ansi |-> NoAnsi, z |-> 0],
      [char |-> " ", ansi |-> BoldAnsi, z |-> 0] }

\* a Buffer of the given size holding the cells of `m`
BufferOf(width, height, m) == [Buffer(width, height) EXCEPT !.buffer = m]

\* the controller fields, which renderDiff and setSprite neither read nor write
Quiet ==
    /\ currentBuffer = 1
    /\ previousBuffer = 2
    /\ isInitialized = TRUE
    /\ lastRenderTime = 0
    /\ totalRenders = 0
    /\ changeCount = 0
    /\ skipRenderCount = 0
    /\ clock = 0
    /\ term = <<>>
    /\ returned = 0
    /\ threw = FALSE
    /\ hist = EmptyMap
    /\ screen = EmptyMap
    /\ termSize = [width |-> Width, height |-> Height + 3]
    /\ sinceResize = "none"
    /\ loop = NoLoop
    /\ frameBuffer = NoFrameBuffer
    /\ movement = NoMovement
    /\ npcManager = NoNPCManager

Idle ==
    /\ call = [op |-> "renderDiff"]
    /\ Quiet

\* the coordinates of a Width x Height grid
Coords == (0..(Width - 1)) \X (0..(Height - 1))

\* any two Width x Height grids holding at most MaxCells cells between them,
\* or any grid of at most MaxCells cells and a grid with the same glyph and
\* style at the same coordinates
DiffInit ==
    /\ Idle
    /\ \/ \E S \in {T \in SUBSET ({1, 2} \X Coords) : Cardinality(T) <= MaxCells} :
          \E f \in [S -> DiffCells] :
             buffers = [id \in {1, 2} |->
                          BufferOf(Width, Height,
                                   [k \in {q[2] : q \in {t \in S : t[1] = id}}
                                       |-> f[<<id, k>>]])]
       \/ \E S \in {T \in SUBSET Coords : Cardinality(T) <= MaxCells} :
          \E f \in [S -> DiffCells], zs \in [S -> {0, 1}] :
             buffers = [id \in {1, 2} |->
                          BufferOf(Width, Height,
                                   IF id = 1 THEN f
                                   ELSE [k \in S |-> [f[k] EXCEPT !.z = zs[k]]])]

\* any one-row grid of EmitCols columns, against an empty grid
EmitInit ==
    /\ Idle
    /\ \E S \in SUBSET ((0..(EmitCols - 1)) \X {0}) :
          \E f \in [S -> {c \in DiffCells : c.char = "█" /\ c.z = 0}] :
             buffers = [id \in {1, 2} |->
                          BufferOf(EmitCols, 1, IF id = 1 THEN f ELSE EmptyMap)]

\* renderDiff(current, previous, term) runs
RenderDiff ==
    /\ call.op = "renderDiff"
    /\ LET diff == renderDiff(Front, Back)
       IN /\ term' = diff.term
          /\ returned' = diff.changes
    /\ call' = [op |-> "returned", from |-> "renderDiff", case |-> "rendered"]
    /\ UNCHANGED <<buffers, currentBuffer, previousBuffer, isInitialized,
                   lastRenderTime, totalRenders, changeCount, skipRenderCount,
                   clock, threw, hist, screen, termSize, sinceResize,
                   loop, movement, npcManager, frameBuffer>>

SpecDiff == DiffInit /\ [][RenderDiff]_vars

SpecEmit == EmitInit /\ [][RenderDiff]_vars

\* side of the square grid of the frames whose emission order is observed,
\* and the most cells such a frame holds
OrderSize == 2
OrderCells == 3

\* the sequences that hold each element of S once
RECURSIVE Orders(_)
Orders(S) ==
    IF S = {} THEN {<<>>}
    ELSE UNION {{<<k>> \o o : o \in Orders(S \ {k})} : k \in S}

\* the array left as it was handed over
Unsorted(a) == a

\* Array.prototype.sort with (a, b) => a - b, on an array of distinct integers
Sorted(a) == SortAscending({a[i] : i \in DOMAIN a})

\* the elements of sequence a, each at its first occurrence
RECURSIVE FirstOccurrences(_)
FirstOccurrences(a) ==
    IF a = <<>> THEN <<>>
    ELSE LET m == FirstOccurrences(SubSeq(a, 1, Len(a) - 1))
         IN IF \E i \in DOMAIN m : m[i] = a[Len(a)] THEN m ELSE Append(m, a[Len(a)])

\* the emission of the rows rows[r..], each with its changes in the order
\* they were pushed
RECURSIVE emitRowsOf(_, _, _, _)
emitRowsOf(current, changes, rows, r) ==
    IF r > Len(rows) THEN <<>>
    ELSE LET rowChanges == SelectSeq(changes, LAMBDA k : k[2] = rows[r])
         IN emitRow(current, rows[r],
                    Sorted([i \in DOMAIN rowChanges |-> rowChanges[i][1]]),
                    1, NoAnsi, -1, <<>>)
            \o emitRowsOf(current, changes, rows, r + 1)

\* renderDiff when current.getEntries() yields the keys in the order `entries`
renderDiffOf(entries, current, previous) ==
    LET changes == SelectSeq(entries, LAMBDA k : k \in DiffKeys(current, previous))
        changesByRow == FirstOccurrences([i \in DOMAIN changes |-> changes[i][2]])
    IN [changes |-> Len(changes),
        term |-> <<Write(CursorSetup)>>
                 \o (IF Len(changes) = 0 THEN <<>>
                     ELSE emitRowsOf(current, changes, Sorted(changesByRow), 1))]

\* any OrderSize x OrderSize front grid of at most OrderCells plain and bold
\* cells, written in any order, against an empty back grid or one that holds
\* the plain cell at the origin
OrderInit ==
    /\ Quiet
    /\ \E S \in {T \in SUBSET ((0..(OrderSize - 1)) \X (0..(OrderSize - 1))) :
                   Cardinality(T) <= OrderCells} :
          \E f \in [S -> {c \in DiffCells : c.char = "█" /\ c.z = 0}],
             shown \in {EmptyMap,
                        (<<0, 0>> :> [char |-> "█", ansi |-> NoAnsi, z |-> 0])},
             entries \in Orders(S) :
             /\ buffers = [id \in {1, 2} |->
                             BufferOf(OrderSize, OrderSize,
                                      IF id = 1 THEN f ELSE shown)]
             /\ call = [op |-> "renderDiff", entries |-> entries]

\* renderDiff(current, previous, term) runs over the entries in their order
RenderDiffOf ==
    /\ call.op = "renderDiff"
    /\ LET diff == renderDiffOf(call.entries, Front, Back)
       IN /\ term' = diff.term
          /\ returned' = diff.changes
    /\ call' = [call EXCEPT !.op = "returned"]
    /\ UNCHANGED <<buffers, currentBuffer, previousBuffer, isInitialized,
                   lastRenderTime, totalRenders, changeCount, skipRenderCount,
                   clock, threw, hist, screen, termSize, sinceResize,
                   loop, movement, npcManager, frameBuffer>>

SpecOrder == OrderInit /\ [][RenderDiffOf]_vars

----------------------------------------------------------------------------
(* The draw calls on one grid *)

GridNext ==
    \/ CallRenderChar
    \/ RenderChar
    \/ ReturnRenderChar
    \/ RenderText
    \/ RenderSprite
    \/ ClearArea
    \/ Clear

SpecGrid == Init /\ [][GridNext]_vars

----------------------------------------------------------------------------
(* Claims about the cell grid (SpecGrid) *)

\* the step in which the body of renderChar runs
RenderCharStep == call.op = "renderChar" /\ call'.op = "returned"

CallInBounds(b) ==
    call.x >= 0 /\ call.x < b.width /\ call.y >= 0 /\ call.y < b.height

CallCell == [char |-> call.char, ansi |-> call.ansi, z |-> call.z]

\* C1: a write at an in-bounds coordinate leaves its cell stored there if and
\* only if the coordinate was free or z >= the z of the cell it held; a
\* rejected write leaves the whole grid as it was, and no write touches
\* another coordinate.
C1_CompositingRule ==
    [][ (RenderCharStep /\ CallInBounds(Front)) =>
          LET before == Front.buffer
              after == buffers'[currentBuffer].buffer
              k == <<call.x, call.y>>
              accepted == k \notin DOMAIN before \/ call.z >= before[k].z
          IN /\ (k \in DOMAIN after /\ after[k] = CallCell) <=> accepted
             /\ ~accepted => buffers' = buffers
             /\ \A q \in (DOMAIN before \cup DOMAIN after) \ {k} :
                    q \in DOMAIN before /\ q \in DOMAIN after /\ after[q] = before[q]
      ]_vars

\* a write of lower z has been rejected by the cell in its place
C1_Witness ==
    /\ call.op = "returned" /\ call.case = "below"
    /\ Front.buffer # EmptyMap

\* C2: whatever draw calls wrote to a coordinate since the grid was last
\* emptied, the cell stored there is the last write among those of maximal z
\* (so its z is the maximum written so far, and never decreases).
C2_MaxZSurvives ==
    /\ DOMAIN Front.buffer = DOMAIN hist
    /\ \A k \in DOMAIN hist : Front.buffer[k] = hist[k]

\* a cell of z 2 has survived a later write of lower z
C2_Witness ==
    /\ call.op = "returned" /\ call.case = "below"
    /\ \E k \in DOMAIN hist : hist[k].z = 2 /\ Front.buffer[k].z = 2

KeysInBounds ==
    \A id \in DOMAIN buffers : \A k \in DOMAIN buffers[id].buffer :
        /\ 0 <= k[1] /\ k[1] < buffers[id].width
        /\ 0 <= k[2] /\ k[2] < buffers[id].height

\* C3: every occupied key of a grid lies inside it, and a write outside the
\* grid raises no error and changes no grid.
C3_OutOfBoundsDropped ==
    /\ []KeysInBounds
    /\ [][ (RenderCharStep /\ ~CallInBounds(Front)) =>
             (buffers' = buffers /\ ~threw') ]_vars

\* a write outside the grid has been made while the grid held a cell
C3_Witness ==
    /\ call.op = "returned" /\ call.case = "outside"
    /\ Front.buffer # EmptyMap

----------------------------------------------------------------------------
(* setSprite applied to a sprite payload *)

\* side of the square grid a sprite is drawn on, and greatest number of
\* elements of a sprite payload
SpriteSize == 2

\* "\x1b[48;2;0;0;0m"
DarkBackground == <<ESC, "[", "4", "8", ";", "2", ";", "0", ";", "0", ";", "0", "m">>

SpriteRows ==
    { StringItem(<<"█">>),
      StringItem(BoldAnsi \o <<"█", "▒">>),
      StringItem(<<"▒", " ">> \o BoldAnsi \o <<"█">>),
      StringItem(DarkBackground \o <<"█">>),
      StringItem(BoldAnsi \o <<"█">> \o ResetAnsi \o <<"a", "▒">>),
      StringItem(<<"█", ESC, "[", "1", "▒">>) }

SpriteCells ==
    { CellItem(0, 0, "█", NoAnsi),
      CellItem(1, 0, "▒", BoldAnsi),
      CellItem(0, 1, "█", DarkBackground),
      PartialItem(1, 1, "▒", NoAnsi, CellFields \ {"x"}),
      NullItem }

\* the payloads: a value that is not an array, or an array of up to
\* SpriteSize rows, cell records and nulls
SpritePayloads ==
    {NotAnArray} \cup
    UNION { {ArraySprite(items) : items \in [1..n -> SpriteRows \cup SpriteCells]} :
            n \in 0..SpriteSize }

SpriteInit ==
    /\ Quiet
    /\ buffers = [id \in {1, 2} |-> Buffer(SpriteSize, SpriteSize)]
    /\ \E x \in {-1, 0}, sprite \in SpritePayloads, z \in {0, 1} :
          call = [op |-> "setSprite", x |-> x, y |-> 0, sprite |-> sprite, z |-> z]

\* this.currentBuffer.setSprite(x, y, sprite, z) runs
SetSprite ==
    /\ call.op = "setSprite"
    /\ buffers' = [buffers EXCEPT ![currentBuffer] =
                      setSprite(@, call.x, call.y, call.sprite, call.z)]
    /\ threw' = setSpriteThrows(call.sprite)
    /\ hist' = HistWrites(hist, Front.width, Front.height,
                          setSpriteCalls(call.x, call.y, call.sprite, call.z))
    /\ call' = [call EXCEPT !.op = "returned"]
    /\ UNCHANGED <<currentBuffer, previousBuffer, isInitialized, lastRenderTime,
                   totalRenders, changeCount, skipRenderCount, clock, term,
                   returned, screen, termSize, sinceResize,
                   loop, movement, npcManager, frameBuffer>>

SpecSprite == SpriteInit /\ [][SetSprite]_vars

----------------------------------------------------------------------------
(* One draw call of a controller that has rendered a frame: the front grid  *)
(* holds what the tick has drawn so far, the back grid the frame on screen  *)

\* what earlier draw calls of the tick may have left in a coordinate
DrawnCells == { [char |-> "█", ansi |-> NoAnsi, z |-> 1],
                [char |-> "▒", ansi |-> BoldAnsi, z |-> 2] }

\* the cell of the frame on screen
ShownCell == [char |-> "█", ansi |-> NoAnsi, z |-> 0]

\* the pending draw calls
DrawCalls ==
    UNION {
      { [op |-> "renderChar", x |-> x, y |-> y, char |-> ink.char,
         ansi |-> ink.ansi, z |-> z] :
            x \in Xs, y \in Ys, ink \in Inks, z \in ZIndexes },
      { [op |-> "renderText", x |-> x, y |-> y, text |-> t.text,
         ansi |-> t.ansi, z |-> z] :
            x \in Xs, y \in Ys,
            t \in Texts \cup {[text |-> <<>>, ansi |-> NoAnsi]}, z \in ZIndexes },
      { [op |-> "renderSprite", x |-> x, y |-> y, sprite |-> sprite, z |-> z] :
            x \in Xs, y \in Ys, sprite \in Sprites, z \in ZIndexes },
      { [op |-> "clearArea", x |-> x, y |-> y, width |-> w, height |-> h,
         z |-> z] :
            x \in Xs, y \in Ys, w \in {0, 1, Width}, h \in {0, 1, Height},
            z \in ZIndexes },
      { [op |-> "clear"] } }

\* the controller after the first frame (one cell at the origin) has been
\* rendered and the tick has drawn at most MaxCells cells, at a draw call
WriteInit ==
    /\ currentBuffer = 2
    /\ previousBuffer = 1
    /\ isInitialized = TRUE
    /\ lastRenderTime = renderSkipThreshold
    /\ totalRenders = 1
    /\ changeCount = 1
    /\ skipRenderCount = 0
    /\ clock = renderSkipThreshold
    /\ term = <<>>
    /\ returned = 0
    /\ threw = FALSE
    /\ screen = (<<0, 0>> :> Visible(ShownCell))
    /\ termSize = [width |-> Width, height |-> Height + 3]
    /\ sinceResize = "none"
    /\ loop = NoLoop
    /\ frameBuffer = NoFrameBuffer
    /\ movement = NoMovement
    /\ npcManager = NoNPCManager
    /\ \E S \in {T \in SUBSET Coords : Cardinality(T) <= MaxCells} :
          \E f \in [S -> DrawnCells] :
             /\ buffers = [id \in {1, 2} |->
                             BufferOf(Width, Height,
                                      IF id = 2 THEN f
                                      ELSE (<<0, 0>> :> ShownCell))]
             /\ hist = f
    /\ call \in DrawCalls

\* the body of the pending renderChar runs
RunRenderChar ==
    /\ call.op = "renderChar"
    /\ IF ~isInitialized THEN Untouched
       ELSE Wrote(<<SetCellCall(call.x, call.y, call.char, call.ansi, call.z)>>, FALSE)
    /\ call' = [call EXCEPT !.op = "returned"]

\* the body of the pending renderText runs
RunRenderText ==
    /\ call.op = "renderText"
    /\ IF ~isInitialized \/ call.text = <<>> THEN Untouched
       ELSE Wrote(setTextCalls(Front, call.x, call.y, call.text, call.ansi, call.z),
                  FALSE)
    /\ call' = [call EXCEPT !.op = "returned"]

\* the body of the pending renderSprite runs
RunRenderSprite ==
    /\ call.op = "renderSprite"
    /\ IF ~isInitialized THEN Untouched
       ELSE Wrote(setSpriteCalls(call.x, call.y, call.sprite, call.z),
                  setSpriteThrows(call.sprite))
    /\ call' = [call EXCEPT !.op = "returned"]

\* the body of the pending clearArea runs
RunClearArea ==
    /\ call.op = "clearArea"
    /\ IF currentBuffer = NoBuffer
       THEN IF call.width > 0 /\ call.height > 0 THEN Throws ELSE Untouched
       ELSE Wrote(clearAreaCalls(Front, call.x, call.y, call.width, call.height,
                                 call.z), FALSE)
    /\ call' = [call EXCEPT !.op = "returned"]

\* the body of the pending clear runs
RunClear ==
    /\ call.op = "clear"
    /\ IF ~isInitialized THEN Untouched
       ELSE /\ buffers' = [buffers EXCEPT ![currentBuffer] = clear(@)]
            /\ hist' = EmptyMap
            /\ threw' = FALSE
            /\ UNCHANGED <<currentBuffer, previousBuffer, isInitialized,
                           lastRenderTime, totalRenders, changeCount,
                           skipRenderCount, clock, term, returned, screen,
                           termSize, sinceResize,
                           loop, movement, npcManager, frameBuffer>>
    /\ call' = [call EXCEPT !.op = "returned"]

WriteNext ==
    \/ RunRenderChar
    \/ RunRenderText
    \/ RunRenderSprite
    \/ RunClearArea
    \/ RunClear

SpecWrite == WriteInit /\ [][WriteNext]_vars

----------------------------------------------------------------------------
(* Claims about renderDiff (SpecDiff, SpecEmit) *)

DiffReturned == call.op = "returned" /\ call.from = "renderDiff"

\* front's cell at k differs from back's by glyph or style, or back has none
Differs(front, back, k) ==
    \/ k \notin DOMAIN back.buffer
    \/ Visible(back.buffer[k]) # Visible(front.buffer[k])

\* front's cell at k is a space of empty style where back has no cell
BlankOnFree(front, back, k) ==
    /\ k \notin DOMAIN back.buffer
    /\ Visible(front.buffer[k]) = [char |-> " ", ansi |-> NoAnsi]

\* the terminal output and the return value report exactly the coordinates `rep`
Reports(rep) ==
    /\ DOMAIN Printed(term) = rep
    /\ \A k \in rep : Printed(term)[k] = Visible(Front.buffer[k])
    /\ returned = Cardinality(rep)

\* C4 (as stated): the diff reports exactly the coordinates occupied in front
\* whose cell differs from back's by glyph or style, a coordinate absent from
\* back counting as differing, each with front's cell.
C4_AsStated ==
    DiffReturned =>
        Reports({k \in DOMAIN Front.buffer : Differs(Front, Back, k)})

\* C4 (amended): the diff reports exactly the coordinates occupied in front
\* whose cell differs from back's by glyph or style (absent from back counts as
\* differing), each with front's cell, except a space of empty style at a
\* coordinate absent from back, which is not reported; a difference in z-index
\* alone is not reported.
C4_DiffExceptBlankOnFree ==
    DiffReturned =>
        Reports({k \in DOMAIN Front.buffer :
                    Differs(Front, Back, k) /\ ~BlankOnFree(Front, Back, k)})

\* a diff has reported one cell and passed over a space of empty style that
\* back does not hold
C4_Witness ==
    /\ DiffReturned
    /\ returned = 1
    /\ \E k \in DOMAIN Front.buffer : BlankOnFree(Front, Back, k)

\* front and back hold the same glyph and style at the same coordinates
SameVisible(front, back) ==
    /\ DOMAIN front.buffer = DOMAIN back.buffer
    /\ \A k \in DOMAIN front.buffer :
          Visible(front.buffer[k]) = Visible(back.buffer[k])

\* C6: diffing a grid against a grid with the same occupied coordinates and
\* the same glyph and style at each reports no change and prints no glyph.
C6_DiffOfCopyIsEmpty ==
    (DiffReturned /\ SameVisible(Front, Back)) =>
        (returned = 0 /\ Printed(term) = EmptyMap)

\* a grid of MaxCells cells has been diffed against a copy that differs from
\* it in z-index only
C6_Witness ==
    /\ DiffReturned
    /\ SameVisible(Front, Back)
    /\ Cardinality(DOMAIN Front.buffer) = MaxCells
    /\ \E k \in DOMAIN Front.buffer : Front.buffer[k].z # Back.buffer[k].z

\* the first coordinates of the maximal runs of the reported cells: a run is
\* a sequence of reported cells at consecutive columns of one row with
\* identical style
RunStarts(front, back) ==
    LET rep == {k \in DOMAIN front.buffer :
                   Differs(front, back, k) /\ ~BlankOnFree(front, back, k)}
    IN {k \in rep : \/ <<k[1] - 1, k[2]>> \notin rep
                    \/ front.buffer[<<k[1] - 1, k[2]>>].ansi # front.buffer[k].ansi}

\* C7: the emitter makes one cursor placement and one write per maximal run
\* of changes at consecutive columns with identical style, the placement at
\* the run's first column.
C7_OneWritePerMaximalRun ==
    DiffReturned =>
        LET moves == {i \in 1..Len(term) : term[i].op = "moveTo"}
        IN /\ Cardinality(moves) = Cardinality(RunStarts(Front, Back))
           /\ {<<term[i].x - 1, term[i].y - 1>> : i \in moves} = RunStarts(Front, Back)

----------------------------------------------------------------------------
(* Claims about the frame loop (Spec) *)

RenderReturned == call.op = "returned" /\ call.from = "render"

\* the step in which a render() call runs without being skipped
RenderedStep == call = NoCall /\ call'.op = "returned" /\ call'.from = "render"
                /\ call'.case = "rendered"

\* C5: a render reports no coordinate that front does not hold, whatever back
\* holds; rendering an empty front yields zero changes, returns 0 and prints
\* no glyph.
C5_BackOnlyNeverReported ==
    [][ RenderedStep =>
          /\ DOMAIN Printed(term') \subseteq DOMAIN Front.buffer
          /\ Front.buffer = EmptyMap =>
                (returned' = 0 /\ changeCount' = changeCount
                 /\ Printed(term') = EmptyMap)
      ]_vars

\* the second render has found nothing drawn, after a first render that
\* reported the cells of its tick
C5_Witness ==
    /\ RenderReturned /\ call.case = "rendered"
    /\ totalRenders = 2
    /\ changeCount > 0
    /\ returned = 0
    /\ Back.buffer = EmptyMap

\* C8: a render whose diff is empty makes no terminal call at all.
C8_EmptyDiffIsSilent ==
    (RenderReturned /\ returned = 0) => term = <<>>

\* front and back are two grids of the same size
TwoGridsOfOneSize ==
    isInitialized =>
        /\ currentBuffer # previousBuffer
        /\ buffers[currentBuffer].width = buffers[previousBuffer].width
        /\ buffers[currentBuffer].height = buffers[previousBuffer].height

\* C9: a non-skipped render exchanges the labels of the two grids: the grid
\* that was front is back with its cells as they were, the grid that was back
\* is front and empty; front and back are always two distinct grids of one
\* size.
C9_SwapByLabel ==
    /\ []TwoGridsOfOneSize
    /\ [][ RenderedStep =>
             /\ previousBuffer' = currentBuffer
             /\ currentBuffer' = previousBuffer
             /\ buffers'[previousBuffer'] = buffers[currentBuffer]
             /\ buffers'[currentBuffer'].buffer = EmptyMap
         ]_vars

\* a render has made the drawn grid the back grid, a second time
C9_Witness ==
    /\ RenderReturned /\ call.case = "rendered"
    /\ totalRenders = 2
    /\ Back.buffer # EmptyMap
    /\ Front.buffer = EmptyMap

\* C10: the front grid is empty when a render() call has returned, whether
\* it rendered or was skipped, so that the next tick's draw calls start from
\* an empty grid.
C10_FrontEmptyAfterRender ==
    (RenderReturned /\ isInitialized) => Front.buffer = EmptyMap

\* what the terminal displays at k: a coordinate never printed at is blank
Shown(k) ==
    IF k \in DOMAIN screen THEN screen[k] ELSE [char |-> " ", ansi |-> NoAnsi]

\* C11: every cell stored in the back grid has the glyph and the style the
\* terminal displays at its coordinate.
C11_BackMatchesTerminal ==
    isInitialized =>
        \A k \in DOMAIN Back.buffer : Shown(k) = Visible(Back.buffer[k])

\* the step in which a render() call runs
RenderStep == call = NoCall /\ call'.op = "returned" /\ call'.from = "render"

\* C12: a render() made less than the minimum render interval after the last
\* render adds one to the skip counter, returns 0, makes no terminal call and
\* leaves the grids, the display, the last-render timestamp and the render
\* and change counters as they were.
C12_SkipBelowMinimumInterval ==
    [][ (RenderStep /\ isInitialized
         /\ clock' - lastRenderTime < minimumRenderInterval) =>
          /\ call'.case = "skipped"
          /\ skipRenderCount' = skipRenderCount + 1
          /\ returned' = 0
          /\ term' = <<>>
          /\ UNCHANGED <<buffers, currentBuffer, previousBuffer, lastRenderTime,
                         totalRenders, changeCount, screen>>
      ]_vars

\* a render() has been skipped, with cells drawn, right after a rendered frame
C12_Witness ==
    /\ RenderReturned /\ call.case = "skipped"
    /\ clock - lastRenderTime < minimumRenderInterval
    /\ totalRenders >= 1
    /\ skipRenderCount = 1
    /\ Front.buffer # EmptyMap

\* C13: a render() on an initialized controller made at least the minimum
\* render interval after the last render is not skipped: it swaps the grids,
\* clears the new front grid and records the time of the render.
C13_RendersFromMinimumInterval ==
    [][ (RenderStep /\ isInitialized
         /\ clock' - lastRenderTime >= minimumRenderInterval) =>
          /\ call'.case = "rendered"
          /\ lastRenderTime' = clock'
          /\ currentBuffer' = previousBuffer
          /\ previousBuffer' = currentBuffer
          /\ buffers'[currentBuffer'].buffer = EmptyMap
      ]_vars

----------------------------------------------------------------------------
(* Claims about resize and release (SpecLife) *)

\* C14: the first render() call after handleResize() is not skipped.
C14_FirstRenderAfterResizeRuns ==
    [][ (RenderStep /\ isInitialized /\ sinceResize = "fresh") =>
          call'.case = "rendered" ]_vars

\* glyph and style of a cell the diff never emits when back has none
Blank == [char |-> " ", ansi |-> NoAnsi]

\* C15: when handleResize() returns, front and back are two distinct empty
\* grids of the terminal's size; the first frame rendered after it is diffed
\* against an empty back grid and prints every non-blank cell of the front
\* grid.
C15_ResizeForcesFullRedraw ==
    /\ []( (call.op = "returned" /\ call.from = "handleResize") =>
             /\ currentBuffer # previousBuffer
             /\ \A id \in {currentBuffer, previousBuffer} :
                   buffers[id] = Buffer(termSize.width, termSize.height - 3) )
    /\ [][ (RenderedStep /\ sinceResize # "none") =>
             /\ Back.buffer = EmptyMap
             /\ \A k \in DOMAIN Front.buffer :
                   Visible(Front.buffer[k]) # Blank =>
                       /\ k \in DOMAIN Printed(term')
                       /\ Printed(term')[k] = Visible(Front.buffer[k])
         ]_vars

\* the frame after a resize to another width has printed again the cell that
\* the frame before the resize had printed
C15_Witness ==
    /\ RenderReturned /\ call.case = "rendered"
    /\ totalRenders = 2
    /\ changeCount = 2
    /\ returned = 1
    /\ Back.width = Width - 1
    /\ \E k \in DOMAIN Back.buffer :
          k \in DOMAIN screen /\ Visible(Back.buffer[k]) # Blank

\* C16: once the terminal's resize event has been handled, both grids have
\* the terminal's new size.
C16_GridsFollowTerminalSize ==
    (isInitialized /\ call = NoCall) =>
        \A id \in {currentBuffer, previousBuffer} :
            /\ buffers[id].width = termSize.width
            /\ buffers[id].height = termSize.height - 3

\* C17: on a released controller no call raises an error.
C17_ReleasedCallsAreNoOps ==
    ~isInitialized => ~threw

----------------------------------------------------------------------------
(* Claims about sprites (SpecSprite) *)

SpriteReturned == call.op = "returned" /\ "sprite" \in DOMAIN call

\* C18: no cell of a sprite whose style sets a near-black background and no
\* foreground is written to the grid, in either sprite encoding.
C18_TransparentNeverWritten ==
    SpriteReturned =>
        \A k \in DOMAIN Front.buffer : ~isBackgroundOnly(Front.buffer[k].ansi)

\* the record is one setCellArray asks for: an object with its four fields
WellFormed(item) == item.type = "object" /\ item.has = CellFields

\* C19: setSprite raises no error, and of an array of cell records every
\* well-formed record that is not transparent and lies inside the grid is
\* written, whatever malformed records (null, or lacking a field) the array
\* holds and wherever they sit.
C19_MalformedRecordsIgnored ==
    SpriteReturned =>
        /\ ~threw
        /\ (/\ call.sprite.type = "array"
            /\ \A i \in 1..Len(call.sprite.items) :
                  call.sprite.items[i].type \in {"object", "null"})
           => \A i \in 1..Len(call.sprite.items) :
                 LET item == call.sprite.items[i] IN
                 (/\ WellFormed(item)
                  /\ ~isBackgroundOnly(item.ansi)
                  /\ _key(Front, call.x + item.x, call.y + item.y) # Null)
                 => /\ <<call.x + item.x, call.y + item.y>> \in DOMAIN Front.buffer
                    /\ Front.buffer[<<call.x + item.x, call.y + item.y>>]
                          = [char |-> item.char, ansi |-> item.ansi, z |-> call.z]

\* row[p] belongs to an escape sequence: an ESC at or before p has no "m"
\* between it and p
InsideEscape(row, p) ==
    \E e \in 1..p : row[e] = ESC /\ \A q \in e..(p - 1) : row[q] # "m"

\* the escape sequence that most recently precedes row[i], or the empty style
PrecedingStyle(row, i) ==
    LET starts == {e \in 1..(i - 1) : row[e] = ESC}
    IN IF starts = {} THEN NoAnsi
       ELSE LET e == CHOOSE a \in starts : \A b \in starts : b <= a
                m == CHOOSE a \in e..i : row[a] = "m" /\ \A b \in e..(a - 1) : row[b] # "m"
            IN SubSeq(row, e, m)

\* the column offset of row[i]: the glyphs and spaces before it
ColumnOffset(row, i) ==
    Cardinality({j \in 1..(i - 1) :
                    ~InsideEscape(row, j) /\ row[j] \in BlockGlyphs \cup {" "}})

\* C20: every visible glyph of a legacy row that falls inside the grid is
\* stored with the escape sequence that most recently precedes it in its own
\* row, verbatim, and with the empty style if none precedes it.
C20_StylePerRow ==
    (/\ SpriteReturned
     /\ call.sprite.type = "array"
     /\ \A r \in 1..Len(call.sprite.items) : call.sprite.items[r].type = "string")
    => \A r \in 1..Len(call.sprite.items) :
          LET row == call.sprite.items[r].str IN
          \A i \in 1..Len(row) :
             LET k == <<call.x + ColumnOffset(row, i), call.y + r - 1>> IN
             (/\ row[i] \in BlockGlyphs
              /\ ~InsideEscape(row, i)
              /\ _key(Front, k[1], k[2]) # Null)
             => /\ k \in DOMAIN Front.buffer
                /\ Front.buffer[k] = [char |-> row[i],
                                      ansi |-> PrecedingStyle(row, i),
                                      z |-> call.z]

\* a row that ends in bold has been followed by a row without any escape
\* sequence, whose glyph is stored with the empty style
C20_Witness ==
    /\ SpriteReturned
    /\ call.sprite.type = "array"
    /\ Len(call.sprite.items) = 2
    /\ call.sprite.items[1] = StringItem(BoldAnsi \o <<"█", "▒">>)
    /\ call.sprite.items[2] = StringItem(<<"█">>)
    /\ call.x = 0
    /\ Front.buffer[<<1, 0>>].ansi = BoldAnsi
    /\ Front.buffer[<<0, 1>>].ansi = NoAnsi

\* the payload is an array of legacy rows
LegacyPayload ==
    /\ call.sprite.type = "array"
    /\ \A r \in 1..Len(call.sprite.items) : call.sprite.items[r].type = "string"

\* the coordinate the visible glyph row[i] of the r-th row is drawn at
GlyphKey(r, row, i) == <<call.x + ColumnOffset(row, i), call.y + r - 1>>

\* row[i] is an allow-listed glyph outside any escape sequence
VisibleGlyph(row, i) == row[i] \in BlockGlyphs /\ ~InsideEscape(row, i)

\* C21: drawn on an empty grid, a sprite of legacy rows leaves a cell exactly
\* at the in-grid coordinates (x + number of glyphs and spaces before the
\* glyph, y + row index) of its allow-listed glyphs, each holding its glyph:
\* spaces, escape sequences and other characters leave no cell, and only
\* glyphs and spaces advance the column.
C21_ColumnPerGlyphOrSpace ==
    (SpriteReturned /\ LegacyPayload) =>
        LET glyphs == UNION {{<<r, i>> : i \in {j \in 1..Len(call.sprite.items[r].str) :
                                     VisibleGlyph(call.sprite.items[r].str, j)}} :
                             r \in 1..Len(call.sprite.items)}
            keyOf(g) == GlyphKey(g[1], call.sprite.items[g[1]].str, g[2])
        IN /\ DOMAIN Front.buffer =
                 {keyOf(g) : g \in {h \in glyphs :
                                       _key(Front, keyOf(h)[1], keyOf(h)[2]) # Null}}
           /\ \A g \in glyphs :
                 keyOf(g) \in DOMAIN Front.buffer =>
                     Front.buffer[keyOf(g)].char = call.sprite.items[g[1]].str[g[2]]

\* a row of glyph, space, escape sequence, glyph drawn at x = -1 has left its
\* second glyph at column 1 and nothing else
C21_Witness ==
    /\ SpriteReturned
    /\ call.sprite = ArraySprite(<<StringItem(<<"▒", " ">> \o BoldAnsi \o <<"█">>)>>)
    /\ call.x = -1
    /\ DOMAIN Front.buffer = {<<1, 0>>}
    /\ Front.buffer[<<1, 0>>].char = "█"

\* index of the first escape marker of the row that no "m" follows (0 if none)
UnterminatedAt(row) ==
    LET open == {e \in 1..Len(row) :
                    row[e] = ESC /\ \A q \in e..Len(row) : row[q] # "m"}
    IN IF open = {} THEN 0 ELSE CHOOSE e \in open : \A f \in open : e <= f

\* the cells of grid row gy are those of the in-grid glyphs among row[1..n]
RowHolds(gy, r, row, n) ==
    {k \in DOMAIN Front.buffer : k[2] = gy} =
        {GlyphKey(r, row, i) :
            i \in {j \in 1..n : /\ VisibleGlyph(row, j)
                                /\ _key(Front, GlyphKey(r, row, j)[1], gy) # Null}}

\* C22: of a legacy row with an escape marker that no terminator follows,
\* the glyphs before the marker are written and nothing after it is; every
\* other row of the sprite is written in full.
C22_UnterminatedEscapeEndsRow ==
    (SpriteReturned /\ LegacyPayload) =>
        /\ ~threw
        /\ \A r \in 1..Len(call.sprite.items) :
              LET row == call.sprite.items[r].str
                  e == UnterminatedAt(row)
              IN RowHolds(call.y + r - 1, r, row, IF e = 0 THEN Len(row) ELSE e - 1)

\* a row with an unterminated escape marker has left the glyph before the
\* marker only, and the row after it has been written
C22_Witness ==
    /\ SpriteReturned
    /\ call.x = 0
    /\ call.sprite = ArraySprite(<<StringItem(<<"█", ESC, "[", "1", "▒">>),
                                   StringItem(BoldAnsi \o <<"█", "▒">>)>>)
    /\ DOMAIN Front.buffer = {<<0, 0>>, <<0, 1>>, <<1, 1>>}

----------------------------------------------------------------------------
(* Claims about one draw call (SpecWrite) *)

\* the coordinates of grid b
GridCoords(b) == (0..(b.width - 1)) \X (0..(b.height - 1))

\* coordinate k is the same in grids b and a
SameAt(b, a, k) ==
    /\ k \in DOMAIN a.buffer <=> k \in DOMAIN b.buffer
    /\ k \in DOMAIN b.buffer => a.buffer[k] = b.buffer[k]

\* coordinate k of a is what a write of `cell` makes of coordinate k of b
WrittenAt(b, a, k, cell) ==
    IF k \notin DOMAIN b.buffer \/ cell.z >= b.buffer[k].z
    THEN k \in DOMAIN a.buffer /\ a.buffer[k] = cell
    ELSE SameAt(b, a, k)

\* the draw call has returned
TextReturned == call.op = "returned" /\ "text" \in DOMAIN call
AreaReturned == call.op = "returned" /\ "width" \in DOMAIN call

\* C23: renderText(x, y, text, ansi, z) leaves at each coordinate (x + i, y)
\* of the grid, i an index of text, what a write of (text[i], ansi, z) makes
\* of it, and every other coordinate as it was; characters beyond the grid
\* raise nothing and leave no cell.
C23_TextWritesEachCharacterInGrid ==
    [][call.op = "renderText" =>
          LET b == Front
              a == buffers'[currentBuffer]
          IN /\ ~threw'
             /\ currentBuffer' = currentBuffer
             /\ DOMAIN a.buffer \subseteq GridCoords(b)
             /\ \A k \in GridCoords(b) :
                   LET i == k[1] - call.x + 1
                   IN IF k[2] = call.y /\ i \in 1..Len(call.text)
                      THEN WrittenAt(b, a, k, [char |-> call.text[i],
                                               ansi |-> call.ansi, z |-> call.z])
                      ELSE SameAt(b, a, k)]_vars

\* a text of two characters drawn at the last column has left its first
\* character there
C23_Witness ==
    /\ TextReturned
    /\ Len(call.text) = 2
    /\ call.x = Width - 1
    /\ <<call.x, call.y>> \in DOMAIN Front.buffer
    /\ Front.buffer[<<call.x, call.y>>] =
           [char |-> call.text[1], ansi |-> call.ansi, z |-> call.z]

\* C24: clearArea(x, y, width, height, z) leaves (space, no style, z) at
\* every coordinate of the rectangle inside the grid that was free or held a
\* cell of z-index <= z, and every other coordinate of the grid as it was.
C24_ClearAreaBlanksUpToZ ==
    [][call.op = "clearArea" =>
          LET b == Front
              a == buffers'[currentBuffer]
          IN /\ ~threw'
             /\ currentBuffer' = currentBuffer
             /\ DOMAIN a.buffer \subseteq GridCoords(b)
             /\ \A k \in GridCoords(b) :
                   IF /\ call.x <= k[1] /\ k[1] < call.x + call.width
                      /\ call.y <= k[2] /\ k[2] < call.y + call.height
                      /\ (k \notin DOMAIN b.buffer \/ b.buffer[k].z <= call.z)
                   THEN /\ k \in DOMAIN a.buffer
                        /\ a.buffer[k] = [char |-> " ", ansi |-> NoAnsi, z |-> call.z]
                   ELSE SameAt(b, a, k)]_vars

\* a clearArea over the whole grid has blanked one coordinate and left a cell
\* of a higher z-index
C24_Witness ==
    /\ AreaReturned
    /\ call.x = 0 /\ call.y = 0 /\ call.width = Width /\ call.height = Height
    /\ \E k \in DOMAIN Front.buffer :
          Front.buffer[k] = [char |-> " ", ansi |-> NoAnsi, z |-> call.z]
    /\ \E k \in DOMAIN Front.buffer :
          Front.buffer[k].z > call.z /\ Front.buffer[k].char # " "

\* C25: a draw call (renderSprite, renderText, renderChar, clearArea, clear)
\* leaves the back grid, the roles of the two grids and the terminal as they
\* were.
C25_DrawCallsTouchFrontOnly ==
    [][call.op \in {"renderSprite", "renderText", "renderChar", "clearArea", "clear"} =>
          /\ previousBuffer' = previousBuffer
          /\ currentBuffer' = currentBuffer
          /\ buffers'[previousBuffer] = buffers[previousBuffer]
          /\ term' = term
          /\ screen' = screen]_vars

\* a renderSprite has written two cells into the front grid while the back
\* grid and the screen hold the frame shown
C25_Witness ==
    /\ call.op = "returned" /\ "sprite" \in DOMAIN call
    /\ Cardinality({k \in DOMAIN Front.buffer : Front.buffer[k] \notin DrawnCells}) >= 2
    /\ Back.buffer = (<<0, 0>> :> ShownCell)
    /\ screen = (<<0, 0>> :> Visible(ShownCell))

----------------------------------------------------------------------------
(* Claims about the value render() returns (SpecLife) *)

\* number of characters of data[i..] outside control sequences
RECURSIVE Glyphs(_, _)
Glyphs(data, i) ==
    IF i > Len(data) THEN 0
    ELSE IF data[i] = ESC THEN Glyphs(data, SequenceEnd(data, i + 1) + 1)
    ELSE 1 + Glyphs(data, i + 1)

\* number of glyphs a sequence of terminal calls writes
RECURSIVE GlyphsWritten(_)
GlyphsWritten(calls) ==
    IF calls = <<>> THEN 0
    ELSE (IF calls[1].op = "write" THEN Glyphs(calls[1].data, 1) ELSE 0)
         + GlyphsWritten(Tail(calls))

\* C26: a render() that renders returns the number of cells of the front
\* grid that differ from the back grid in glyph or style (blanks on free
\* coordinates apart), and writes that many glyphs to the terminal; a
\* skipped render and a render of a released controller return 0 and write
\* no glyph.
C26_ReturnsCellsReportedAndWritten ==
    [][RenderStep =>
          IF call'.case = "rendered"
          THEN /\ returned' = Cardinality({k \in DOMAIN Front.buffer :
                                              Differs(Front, Back, k)
                                              /\ ~BlankOnFree(Front, Back, k)})
               /\ returned' = GlyphsWritten(term')
          ELSE returned' = 0 /\ GlyphsWritten(term') = 0]_vars

\* a render has reported two cells and written two glyphs
C26_Witness ==
    /\ RenderReturned
    /\ call.case = "rendered"
    /\ returned = 2
    /\ GlyphsWritten(term) = 2

----------------------------------------------------------------------------
(* Claims about the order of emission (SpecOrder) *)

\* the 0-based coordinates of the glyphs a sequence of terminal calls writes,
\* in the order they are written, the cursor being at `at`
RECURSIVE EmittedFrom(_, _)
EmittedFrom(calls, at) ==
    IF calls = <<>> THEN <<>>
    ELSE IF calls[1].op = "moveTo"
         THEN EmittedFrom(Tail(calls), <<calls[1].x - 1, calls[1].y - 1>>)
         ELSE LET n == Glyphs(calls[1].data, 1)
              IN [i \in 1..n |-> <<at[1] + i - 1, at[2]>>]
                 \o EmittedFrom(Tail(calls), <<at[1] + n, at[2]>>)

Emitted == EmittedFrom(term, <<0, 0>>)

\* coordinate p comes before q: an earlier row, or the same row and an
\* earlier column
ComesBefore(p, q) == p[2] < q[2] \/ (p[2] = q[2] /\ p[1] < q[1])

\* the diff over ordered entries has returned
OrderedReturned == call.op = "returned" /\ "entries" \in DOMAIN call

\* C27: in whatever order the entries of the front grid are met, the glyphs
\* of a frame are written in ascending row order and, within a row, in
\* ascending column order, every reported cell among them; the terminal
\* calls are those of the diff that knows no order of entries.
C27_EmittedInRowThenColumnOrder ==
    OrderedReturned =>
        /\ Len(Emitted) = returned
        /\ \A i, j \in 1..Len(Emitted) :
              i < j => ComesBefore(Emitted[i], Emitted[j])
        /\ term = renderDiff(Front, Back).term

\* a frame of two rows whose entries were met in descending order has been
\* emitted, two of its glyphs in one row
C27_Witness ==
    /\ OrderedReturned
    /\ Len(Emitted) >= 3
    /\ \E i, j \in 1..Len(Emitted) : Emitted[i][2] # Emitted[j][2]
    /\ \A i, j \in 1..Len(call.entries) :
          i < j => ComesBefore(call.entries[j], call.entries[i])

----------------------------------------------------------------------------
(* The array-based FrameBuffer of src/renderer/frame-buffer.js *)

\* columns and rows of the FrameBuffer
FrameWidth == 2
FrameHeight == 1

\* new Cell(): its color is always null and is left out
NewCell == [character |-> <<" ">>, zIndex |-> 0, dirty |-> FALSE,
            isSpriteLine |-> FALSE]

\* Cell.clone: the copy takes character, zIndex and dirty
CellClone(cell) ==
    [NewCell EXCEPT !.character = cell.character, !.zIndex = cell.zIndex,
                    !.dirty = cell.dirty]

\* Cell.equals
CellEquals(cell, other) ==
    /\ cell.character = other.character
    /\ cell.zIndex = other.zIndex
    /\ cell.isSpriteLine = other.isSpriteLine

\* Cell.set and Cell.clear
CellSet(cell, character, zIndex) ==
    [cell EXCEPT !.character = character, !.zIndex = zIndex, !.dirty = TRUE]
CellClear(cell) == CellSet(cell, <<" ">>, 0)

\* FrameBuffer.createEmptyBuffer
createEmptyBuffer(width, height) ==
    [k \in (0..(width - 1)) \X (0..(height - 1)) |-> NewCell]

\* new FrameBuffer(width, height)
FrameBuffer(width, height) ==
    [made |-> TRUE, width |-> width, height |-> height,
     currentFrame |-> createEmptyBuffer(width, height),
     previousFrame |-> createEmptyBuffer(width, height),
     dirtyRegions |-> {}, fullRedraw |-> FALSE]

isValidPosition(fb, x, y) == x >= 0 /\ x < fb.width /\ y >= 0 /\ y < fb.height

markDirty(fb, x, y) ==
    IF isValidPosition(fb, x, y)
    THEN [fb EXCEPT !.dirtyRegions = @ \cup {<<x, y>>}]
    ELSE fb

\* FrameBuffer.setCell
FrameBufferSetCell(fb, x, y, character, zIndex) ==
    IF isValidPosition(fb, x, y)
    THEN markDirty([fb EXCEPT !.currentFrame[<<x, y>>] =
                                 CellSet(@, character, zIndex)], x, y)
    ELSE fb

\* FrameBuffer.setSpriteLine: a new Cell takes the place of the old one
setSpriteLine(fb, x, y, spriteLine, zIndex) ==
    IF isValidPosition(fb, x, y)
    THEN markDirty([fb EXCEPT !.currentFrame[<<x, y>>] =
                                 [character |-> spriteLine, zIndex |-> zIndex,
                                  dirty |-> TRUE, isSpriteLine |-> TRUE]], x, y)
    ELSE fb

\* String.prototype.trim() !== ''
TrimsToNonEmpty(line) == \E i \in DOMAIN line : line[i] # " "

\* FrameBuffer.setCells, from the sy-th row of the sprite on (1-based)
RECURSIVE setCellsFrom(_, _, _, _, _, _)
setCellsFrom(fb, x, y, sprite, zIndex, sy) ==
    IF sy > Len(sprite) THEN fb
    ELSE setCellsFrom(IF /\ isValidPosition(fb, x, y + sy - 1)
                         /\ TrimsToNonEmpty(sprite[sy])
                      THEN setSpriteLine(fb, x, y + sy - 1, sprite[sy], zIndex)
                      ELSE fb,
                      x, y, sprite, zIndex, sy + 1)

setCells(fb, x, y, sprite, zIndex) == setCellsFrom(fb, x, y, sprite, zIndex, 1)

\* FrameBuffer.clearArea
FrameBufferClearArea(fb, x, y, width, height) ==
    LET inside == {k \in DOMAIN fb.currentFrame :
                      /\ x <= k[1] /\ k[1] < x + width
                      /\ y <= k[2] /\ k[2] < y + height}
    IN [fb EXCEPT !.currentFrame = [k \in DOMAIN @ |->
                                       IF k \in inside THEN CellClear(@[k]) ELSE @[k]],
                  !.dirtyRegions = @ \cup inside]

\* FrameBuffer.clear
FrameBufferClear(fb) ==
    [fb EXCEPT !.currentFrame = [k \in DOMAIN @ |-> CellClear(@[k])],
               !.fullRedraw = TRUE]

\* FrameBuffer.swapBuffers
FrameBufferSwapBuffers(fb) ==
    [fb EXCEPT !.previousFrame = [k \in DOMAIN @ |-> CellClone(fb.currentFrame[k])],
               !.dirtyRegions = {},
               !.fullRedraw = FALSE]

\* FrameBuffer.getDiff: the coordinates it reports
getDiff(fb) ==
    {k \in DOMAIN fb.currentFrame :
        ~CellEquals(fb.currentFrame[k], fb.previousFrame[k])}

\* FrameBuffer.getDirtyCells: the coordinates it reports
getDirtyCells(fb) == fb.dirtyRegions

\* the inputs of the FrameBuffer's calls
FrameXs == -1..FrameWidth
FrameYs == -1..FrameHeight
FrameLines == { <<"█">>, <<" ">> }
FrameSprites == { <<>>, <<<<"█">>>>, <<<<" ">>, <<"█">>>> }

FrameInit ==
    /\ buffers = [id \in {1, 2} |-> Buffer(Width, Height)]
    /\ currentBuffer = 1
    /\ previousBuffer = 2
    /\ isInitialized = TRUE
    /\ lastRenderTime = 0
    /\ totalRenders = 0
    /\ changeCount = 0
    /\ skipRenderCount = 0
    /\ clock = 0
    /\ term = <<>>
    /\ returned = 0
    /\ threw = FALSE
    /\ call = NoCall
    /\ hist = EmptyMap
    /\ screen = EmptyMap
    /\ termSize = [width |-> Width, height |-> Height + 3]
    /\ sinceResize = "none"
    /\ loop = NoLoop
    /\ frameBuffer = FrameBuffer(FrameWidth, FrameHeight)
    /\ movement = NoMovement
    /\ npcManager = NoNPCManager

\* the FrameBuffer has become fb' by the call `name`
FrameCall(name, fb) ==
    /\ frameBuffer' = fb
    /\ call' = [op |-> "returned", from |-> name]
    /\ UNCHANGED <<buffers, currentBuffer, previousBuffer, isInitialized,
                   lastRenderTime, totalRenders, changeCount, skipRenderCount,
                   clock, term, returned, threw, hist, screen, termSize,
                   sinceResize, loop, movement, npcManager>>

FrameSetCell ==
    \E x \in FrameXs, y \in FrameYs, zIndex \in {0, 1} :
        FrameCall("setCell", FrameBufferSetCell(frameBuffer, x, y, <<"█">>, zIndex))

FrameSetCells ==
    \E x \in FrameXs, y \in FrameYs, sprite \in FrameSprites, zIndex \in {0, 1} :
        FrameCall("setCells", setCells(frameBuffer, x, y, sprite, zIndex))

FrameSetSpriteLine ==
    \E x \in FrameXs, y \in FrameYs, line \in FrameLines, zIndex \in {0, 1} :
        FrameCall("setSpriteLine", setSpriteLine(frameBuffer, x, y, line, zIndex))

FrameClearArea ==
    \E x \in FrameXs, y \in FrameYs, w \in {1, FrameWidth}, h \in {1, FrameHeight} :
        FrameCall("clearArea", FrameBufferClearArea(frameBuffer, x, y, w, h))

FrameClear == FrameCall("clear", FrameBufferClear(frameBuffer))

FrameSwapBuffers == FrameCall("swapBuffers", FrameBufferSwapBuffers(frameBuffer))

FrameNext ==
    \/ FrameSetCell
    \/ FrameSetCells
    \/ FrameSetSpriteLine
    \/ FrameClearArea
    \/ FrameClear
    \/ FrameSwapBuffers

SpecFrame == FrameInit /\ [][FrameNext]_vars

----------------------------------------------------------------------------
(* Claims about the array-based FrameBuffer (SpecFrame) *)

\* C30: after swapBuffers() and before any further write, getDiff() and
\* getDirtyCells() report nothing.
C30_NothingToReportAfterSwap ==
    (call.op = "returned" /\ call.from = "swapBuffers") =>
        /\ getDiff(frameBuffer) = {}
        /\ getDirtyCells(frameBuffer) = {}

----------------------------------------------------------------------------
(* GameLoop: the timer-driven loop over the controller, with the player and *)
(* one elk.  No clock is kept here: each test of elapsed time made by a     *)
(* tick is an input of the tick.                                            *)

\* columns and rows of the grids of the loop: one scene row above the two
\* rows of displayUI
LoopWidth == 2
LoopHeight == 3

\* GameLoop.maxFrameSkip
maxFrameSkip == 3

\* the player's frame counter is followed up to MaxFrame, and the loop up to
\* LoopRenders calls of Render.render
MaxFrame == 1
LoopRenders == 2

\* "\x1b[2m"
DimAnsi == <<ESC, "[", "2", "m">>

\* ElkNPC.directions
directions == <<"up", "down", "left", "right">>

\* SPRITE_COLLECTIONS[direction][frame % FRAME_COUNT], the collections being
\* [d0, d1, d0, d2]: a one-glyph legacy row, its glyph standing for the
\* direction and its style for the picture
SpriteOf(glyph, frame) ==
    ArraySprite(<<StringItem(<<NoAnsi, BoldAnsi, NoAnsi, DimAnsi>>[(frame % 4) + 1]
                             \o <<glyph>>)>>)

\* ElkAnimation.getCurrentSprite
ElkSprite(direction, currentFrame) ==
    SpriteOf(CASE direction = "up" -> "▀" [] direction = "down" -> "▄"
               [] direction = "left" -> "▌" [] OTHER -> "▐",
             currentFrame)

\* CharacterAnimation.getCurrentSprite: the idle frame unless moving
CharacterSprite(direction, isMoving, currentFrame) ==
    SpriteOf(CASE direction = "left" -> "▒" [] direction = "right" -> "▓"
               [] OTHER -> "█",
             IF isMoving THEN currentFrame ELSE 0)

\* the tile sprite MapManager.renderMap draws under each column of the scene
TileSprite == ArraySprite(<<StringItem(<<"░">>)>>)

\* the first characters of the two lines of displayUI ("Position: ..." and
\* "Map: ..."); setText drops what lies beyond the last column
uiText == <<"P", "o", "s">>
controlsText == <<"M", "a", "p">>

\* where initializeNPCs puts the elk, and the row of the player
NpcX == LoopWidth - 1
SceneY == 0

\* lastRenderState before the first render
NoState == [set |-> FALSE]

\* new GameLoop(): the player at the left, idle and facing down; the elk
\* facing down at frame 0
GameLoop ==
    [made |-> TRUE, isRunning |-> FALSE, started |-> FALSE, stopped |-> FALSE,
     timers |-> 0, lastRenderState |-> NoState,
     pressedKeys |-> "none", keyTimeout |-> FALSE,
     characterX |-> 0, direction |-> "down", isMoving |-> FALSE, currentFrame |-> 0,
     currentDirectionIndex |-> 0, npcDirection |-> "down", npcFrame |-> 0,
     npcMoving |-> FALSE, npcTimeout |-> FALSE,
     pending |-> TRUE, behindRun |-> 0]

\* the elapsed-time tests of one tick, as inputs:
\*   behind       deltaTime > frameInterval * frameSkipThreshold (gameLoop)
\*   renderDue    currentTime - lastRenderTime >= minRenderInterval (GameLoop.render)
\*   rendererDue  both interval tests of Render.render pass
\*   mapDue       MapManager.renderMap does not skip
\*   moveDue      currentTime - lastMovementTime > movementSpeed
\*   stopDue      currentTime - lastMoveTime > MOVEMENT_TIMEOUT
\*   frameDue     the player's ANIMATION_SPEED has elapsed
\*   npcDue       the throttles of NPCManager.update and NPC.update pass
\*   npcFrameDue  the elk's ANIMATION_SPEED has elapsed
\*   behaviorDue  behaviorInterval and directionChangeInterval have elapsed
\*   roll         Math.random() < 0.1 in ElkNPC.updateBehavior
TickInput(behind, renderDue, rendererDue, mapDue, moveDue, stopDue, frameDue, npcDue, npcFrameDue, behaviorDue, roll) ==
    [behind |-> behind, renderDue |-> renderDue, rendererDue |-> rendererDue,
     mapDue |-> mapDue, moveDue |-> moveDue, stopDue |-> stopDue,
     frameDue |-> frameDue, npcDue |-> npcDue, npcFrameDue |-> npcFrameDue,
     behaviorDue |-> behaviorDue, roll |-> roll]

\* a tick before anything is due; a tick on time; a tick on time at which the
\* animations advance; one at which the elk turns as well; one at which it
\* starts to move besides; a tick that is behind schedule.  (Render.render refuses a frame that comes less than
\* renderSkipThreshold = 33 ms after the last one, and GameLoop.render lets a
\* frame through every minRenderInterval = 50 ms at most: rendererDue holds
\* whenever renderDue does.)
Early == TickInput(FALSE, FALSE, FALSE, FALSE, FALSE, FALSE, FALSE, FALSE, FALSE, FALSE, FALSE)
OnTime == TickInput(FALSE, TRUE, TRUE, FALSE, TRUE, FALSE, FALSE, TRUE, FALSE, FALSE, FALSE)
Animating == TickInput(FALSE, TRUE, TRUE, TRUE, TRUE, TRUE, TRUE, TRUE, TRUE, FALSE, FALSE)
Turning == TickInput(FALSE, TRUE, TRUE, TRUE, TRUE, TRUE, TRUE, TRUE, TRUE, TRUE, FALSE)
Rolling == TickInput(FALSE, TRUE, TRUE, TRUE, TRUE, TRUE, TRUE, TRUE, TRUE, TRUE, TRUE)
Behind == TickInput(TRUE, TRUE, TRUE, FALSE, TRUE, TRUE, TRUE, TRUE, TRUE, FALSE, FALSE)
TickInputs == {Early, OnTime, Animating, Turning, Rolling, Behind}

\* a gameLoop() that goes on whatever it finds
gameLoopNeverReturns(l) == FALSE

\* a gameLoop() that finds the loop stopped does nothing more
gameLoopReturns(l) == ~l.isRunning

\* MovementController.updateMovement, then CharacterAnimation.updateFrame
updateMovement(l, e) ==
    LET moves == l.pressedKeys # "none" /\ e.moveDue
        x == IF ~moves THEN l.characterX
             ELSE IF l.pressedKeys = "LEFT" THEN Max(0, l.characterX - 1)
             ELSE Min(LoopWidth - 1, l.characterX + 1)
        direction == IF ~moves THEN l.direction
                     ELSE IF l.pressedKeys = "LEFT" THEN "left" ELSE "right"
        moved == x # l.characterX
        stops == l.isMoving /\ ~moved /\ e.stopDue
        isMoving == (l.isMoving \/ moved) /\ ~stops
        frame == IF stops THEN 0
                 ELSE IF isMoving /\ e.frameDue THEN l.currentFrame + 1
                 ELSE l.currentFrame
    IN [l EXCEPT !.characterX = x, !.direction = direction,
                 !.isMoving = isMoving, !.currentFrame = frame]

\* NPCManager.update: NPC.update, ElkAnimation.updateFrame and
\* ElkNPC.updateBehavior (the frame is kept modulo FRAME_COUNT, which is all
\* that is read of it)
npcUpdate(l, e) ==
    IF ~e.npcDue THEN l
    ELSE LET frame == IF e.npcFrameDue THEN (l.npcFrame + 1) % 4 ELSE l.npcFrame
             index == IF e.behaviorDue THEN (l.currentDirectionIndex + 1) % 4
                      ELSE l.currentDirectionIndex
         IN [l EXCEPT !.npcFrame = frame,
                      !.currentDirectionIndex = index,
                      !.npcDirection = IF e.behaviorDue THEN directions[index + 1]
                                       ELSE @,
                      !.npcMoving = @ \/ (e.behaviorDue /\ e.roll),
                      !.npcTimeout = @ \/ (e.behaviorDue /\ e.roll)]

\* GameLoop.update
update(l, e) == npcUpdate(updateMovement(l, e), e)

\* the render state GameLoop.render builds
currentRenderState(l) ==
    [set |-> TRUE,
     position |-> l.characterX,
     sprite |-> CharacterSprite(l.direction, l.isMoving, l.currentFrame),
     frame |-> l.currentFrame, isMoving |-> l.isMoving,
     npcPosition |-> NpcX,
     npcSprite |-> ElkSprite(l.npcDirection, l.npcFrame)]

\* GameLoop.statesEqual
statesEqual(state1, state2) ==
    /\ state1.set /\ state2.set
    /\ state1.position = state2.position
    /\ state1.frame = state2.frame
    /\ state1.isMoving = state2.isMoving
    /\ state1.npcPosition = state2.npcPosition

\* the setCell calls of the draw calls of GameLoop.render on front grid b:
\* the map (when it does not skip), the player (z 10) and the elk (z 11) in
\* the order of the stable sort by y, then displayUI
drawCalls(b, l, e) ==
    (IF e.mapDue
     THEN setSpriteCalls(0, SceneY, TileSprite, 0)
          \o setSpriteCalls(1, SceneY, TileSprite, 0)
     ELSE <<>>)
    \o setSpriteCalls(l.characterX, SceneY,
                      CharacterSprite(l.direction, l.isMoving, l.currentFrame), 10)
    \o setSpriteCalls(NpcX, SceneY, ElkSprite(l.npcDirection, l.npcFrame), 11)
    \o clearAreaCalls(b, 0, b.height - 2, b.width, 2, 0)
    \o setTextCalls(b, 0, b.height - 2, uiText, NoAnsi, 100)
    \o setTextCalls(b, 0, b.height - 1, controlsText, NoAnsi, 100)

\* what a running tick does with input e:
\*   "behind"  update only;  "early" the render interval has not elapsed;
\*   "equal"   statesEqual skips the drawing;  "refused" the frame is drawn
\*   and Render.render skips;  "rendered" the frame is drawn and rendered
TickCase(l, e) ==
    IF e.behind THEN "behind"
    ELSE IF ~e.renderDue THEN "early"
    ELSE IF statesEqual(l.lastRenderState, currentRenderState(update(l, e))) THEN "equal"
    ELSE IF ~e.rendererDue THEN "refused"
    ELSE "rendered"

\* the loop record after a running tick: the elk's sprite is pending from the
\* tick that changes it until a tick draws and renders it; behindRun counts
\* the iterations in a row that did not call GameLoop.render for being behind
\* schedule (up to maxFrameSkip + 1)
Ticked(l, e) ==
    LET u == update(l, e)
        c == TickCase(l, e)
        changed == ElkSprite(u.npcDirection, u.npcFrame)
                   # ElkSprite(l.npcDirection, l.npcFrame)
    IN [u EXCEPT !.lastRenderState = IF c \in {"refused", "rendered"}
                                     THEN currentRenderState(u) ELSE @,
                 !.pending = IF c = "rendered" /\ isInitialized THEN FALSE
                             ELSE (@ \/ changed),
                 !.behindRun = IF c = "behind" THEN Min(@ + 1, maxFrameSkip + 1)
                               ELSE 0]

\* nothing is drawn and nothing rendered
NoFrame ==
    /\ term' = <<>>
    /\ UNCHANGED <<buffers, currentBuffer, previousBuffer, totalRenders,
                   changeCount, skipRenderCount, returned, hist>>
    /\ UNCHANGED <<screen, sinceResize>>

\* Render.render() refuses the frame drawn, `drawn` being the grids after
\* the draw calls `calls`
RefusedFrame(calls, drawn) ==
    /\ buffers' = drawn
    /\ skipRenderCount' = skipRenderCount + 1
    /\ returned' = 0
    /\ term' = <<>>
    /\ hist' = HistWrites(hist, Front.width, Front.height, calls)
    /\ UNCHANGED <<currentBuffer, previousBuffer, totalRenders, changeCount,
                   screen, sinceResize>>

\* Render.render() emits the difference `diff` and swaps into `swap`
RenderedFrame(diff, swap) ==
    /\ buffers' = swap.buffers
    /\ currentBuffer' = swap.currentBuffer
    /\ previousBuffer' = swap.previousBuffer
    /\ totalRenders' = totalRenders + 1
    /\ changeCount' = changeCount + diff.changes
    /\ returned' = diff.changes
    /\ term' = diff.term
    /\ screen' = Display(screen, diff.term)
    /\ hist' = EmptyMap
    /\ sinceResize' = "none"
    /\ UNCHANGED skipRenderCount

\* the frame drawn by `calls` goes to Render.render()
DrawnFrame(refused, calls, drawn) ==
    /\ totalRenders + skipRenderCount < LoopRenders
    /\ IF refused
       THEN RefusedFrame(calls, drawn)
       ELSE RenderedFrame(renderDiff(drawn[currentBuffer], drawn[previousBuffer]),
                          swapBuffers(drawn, currentBuffer, previousBuffer))

\* the draw calls `calls` of GameLoop.render and bufferedRenderer.render()
Frame(refused, calls) ==
    DrawnFrame(refused, calls,
               [buffers EXCEPT ![currentBuffer] = ApplySetCells(@, calls)])

\* the running loop u, updated, comes to case c of its tick with input e
RunFrame(c, u, e) ==
    IF c \in {"behind", "early", "equal"} THEN NoFrame
    ELSE IF ~isInitialized
    THEN \* every draw call and Render.render return at once
         /\ returned' = 0
         /\ term' = <<>>
         /\ UNCHANGED <<buffers, currentBuffer, previousBuffer, totalRenders,
                        changeCount, skipRenderCount, hist, screen, sinceResize>>
    ELSE Frame(c = "refused", drawCalls(Front, u, e))

\* the body of gameLoop() on the running loop l with input e, `fired`
\* timers being consumed and one scheduled
gameLoop(l, e, fired) ==
    /\ update(l, e).currentFrame <= MaxFrame
    /\ loop' = [Ticked(l, e) EXCEPT !.timers = @ - fired + 1]
    /\ threw' = FALSE
    /\ RunFrame(TickCase(l, e), update(l, e), e)
    /\ UNCHANGED <<isInitialized, lastRenderTime, clock, call, termSize,
                   frameBuffer, movement, npcManager>>

\* GameLoop.start(): the screen is cleared and gameLoop() runs at once
\* (followed from a loop that has not been started before).  Every "last
\* time" of the loop, the animations and the elk is 0 at construction, so
\* that everything is due in this first tick.
Start ==
    /\ ~loop.started
    /\ \E e \in {Turning, Rolling} :
          gameLoop([loop EXCEPT !.started = TRUE, !.isRunning = TRUE], e, 0)

\* the timer of gameLoop fires with input e
TimerFiresWith(e) ==
    /\ loop.timers > 0
    /\ IF gameLoopReturns(loop)
       THEN /\ loop' = [loop EXCEPT !.timers = @ - 1]
            /\ UNCHANGED <<buffers, currentBuffer, previousBuffer, isInitialized,
                           lastRenderTime, totalRenders, changeCount,
                           skipRenderCount, clock, term, returned, threw, call,
                           hist, screen, termSize, sinceResize, frameBuffer, movement, npcManager>>
       ELSE gameLoop(loop, e, 1)

TimerFires == \E e \in TickInputs : TimerFiresWith(e)

\* GameLoop.stop(): MovementController.cleanup (the key timeouts are
\* cleared, TerminalRender.cleanup clears the screen) and Render.cleanup
Stop ==
    /\ loop.isRunning
    /\ loop' = [loop EXCEPT !.isRunning = FALSE, !.stopped = TRUE,
                            !.keyTimeout = FALSE]
    /\ screen' = EmptyMap
    /\ isInitialized' = FALSE
    /\ currentBuffer' = NoBuffer
    /\ previousBuffer' = NoBuffer
    /\ hist' = EmptyMap
    /\ term' = <<>>
    /\ threw' = FALSE
    /\ UNCHANGED <<buffers, lastRenderTime, totalRenders, changeCount,
                   skipRenderCount, clock, returned, call, termSize, sinceResize,
                   frameBuffer, movement, npcManager>>

\* only `loop` changes
LoopOnly ==
    UNCHANGED <<buffers, currentBuffer, previousBuffer, isInitialized,
                lastRenderTime, totalRenders, changeCount, skipRenderCount, clock,
                term, returned, threw, call, hist, screen, termSize, sinceResize,
                frameBuffer, movement, npcManager>>

\* the arrow keys pressed: the player starts at the left edge
MovementKeys == {"RIGHT"}

\* MovementController.handleKeyPress with an arrow key: the key is held and
\* its release timeout (re)started
HandleKeyPress ==
    /\ \E key \in MovementKeys :
          loop' = [loop EXCEPT !.pressedKeys = key, !.keyTimeout = TRUE]
    /\ LoopOnly

\* the release timeout of the held key fires: the key is released and
\* CharacterAnimation.setMoving(false) makes the player idle at frame 0
KeyRelease ==
    /\ loop.keyTimeout
    /\ loop' = [loop EXCEPT !.pressedKeys = "none", !.keyTimeout = FALSE,
                            !.isMoving = FALSE, !.currentFrame = 0]
    /\ LoopOnly

\* the timeout set by ElkNPC.updateBehavior fires: setMoving(false)
ElkStops ==
    /\ loop.npcTimeout
    /\ loop' = [loop EXCEPT !.npcMoving = FALSE, !.npcTimeout = FALSE]
    /\ LoopOnly

LoopInit ==
    /\ buffers = [id \in {1, 2} |-> Buffer(LoopWidth, LoopHeight)]
    /\ currentBuffer = 1
    /\ previousBuffer = 2
    /\ isInitialized = TRUE
    /\ lastRenderTime = 0
    /\ totalRenders = 0
    /\ changeCount = 0
    /\ skipRenderCount = 0
    /\ clock = 0
    /\ term = <<>>
    /\ returned = 0
    /\ threw = FALSE
    /\ call = NoCall
    /\ hist = EmptyMap
    /\ screen = EmptyMap
    /\ termSize = [width |-> LoopWidth, height |-> LoopHeight + 3]
    /\ sinceResize = "none"
    /\ loop = GameLoop
    /\ frameBuffer = NoFrameBuffer
    /\ movement = NoMovement
    /\ npcManager = NoNPCManager

LoopNext ==
    \/ Start
    \/ TimerFires
    \/ Stop
    \/ HandleKeyPress
    \/ KeyRelease
    \/ ElkStops

SpecLoop == LoopInit /\ [][LoopNext]_vars

\* the loop without player input
IdleNext ==
    \/ Start
    \/ TimerFires
    \/ Stop
    \/ ElkStops

\* without player input: the timer keeps firing, and ticks that are on time,
\* at which the animations advance, keep occurring
SpecLoopFair ==
    /\ LoopInit /\ [][IdleNext]_vars
    /\ WF_vars(TimerFires)
    /\ WF_vars(TimerFiresWith(Animating))
    /\ WF_vars(TimerFiresWith(OnTime))

----------------------------------------------------------------------------
(* Claims about the loop                                                    *)

\* what GameLoop.update changes of the loop
Updated(l) ==
    <<l.characterX, l.direction, l.currentDirectionIndex, l.npcDirection, l.npcFrame>>

\* C28: once GameLoop.stop() has returned, both grids are released, and no
\* later step (the firing of the timer that was pending included) updates the
\* player's position or the elk, draws into a grid, renders, or writes to
\* the terminal
C28_NothingRunsAfterStop ==
    [][loop.stopped =>
          /\ currentBuffer = NoBuffer /\ previousBuffer = NoBuffer
          /\ currentBuffer' = NoBuffer /\ previousBuffer' = NoBuffer
          /\ ~isInitialized'
          /\ Updated(loop') = Updated(loop)
          /\ loop'.lastRenderState = loop.lastRenderState
          /\ buffers' = buffers
          /\ totalRenders' = totalRenders
          /\ skipRenderCount' = skipRenderCount
          /\ changeCount' = changeCount
          /\ term' = <<>>
          /\ screen' = screen]_vars

\* the loop has rendered, was stopped with its timer pending, and the timer
\* has fired since
C28_Witness ==
    /\ loop.stopped
    /\ loop.timers = 0
    /\ totalRenders >= 1
    /\ screen = EmptyMap

\* the player is as the last frame drawn shows them
PlayerAsDrawn(l) ==
    /\ l.lastRenderState.set
    /\ l.lastRenderState.position = l.characterX
    /\ l.lastRenderState.frame = l.currentFrame
    /\ l.lastRenderState.isMoving = l.isMoving

\* C29: when the elk's sprite has changed since it was last drawn and
\* rendered, the loop is running and the player's position, frame and
\* moving-state are those of the last frame, then eventually a tick draws
\* and renders the elk's new sprite (or the player changes, the loop is
\* stopped, or the renders that are followed are used up)
C29_ElkSpriteChangeIsRendered ==
    (loop.pending /\ loop.isRunning /\ PlayerAsDrawn(loop))
       ~> \/ ~loop.pending
          \/ ~loop.isRunning
          \/ ~PlayerAsDrawn(loop)
          \/ totalRenders + skipRenderCount >= LoopRenders

----------------------------------------------------------------------------
(* Claims about the emitted output (SpecDiff)                               *)

\* the changes of the frame: the coordinates renderDiff records
Changes(front, back) ==
    {k \in DOMAIN front.buffer : Differs(front, back, k) /\ ~BlankOnFree(front, back, k)}

\* a display showing a mark at every coordinate of the grid and of the
\* column and the row beyond it
Mark == [char |-> "?", ansi |-> <<"?">>]
Marked == [k \in (0..Front.width) \X (0..Front.height) |-> Mark]

\* the glyphs of the n cells of front from coordinate k rightwards
RunGlyphs(front, k, n) == [j \in 1..n |-> front.buffer[<<k[1] + j - 1, k[2]>>].char]

\* the calls term[i], term[i + 1] are one run of changes: one cursor move to
\* column x + 1 of row y + 1 for a change (x, y), then one write of the
\* style, of the glyphs of the changes from there rightwards, and of one reset
IsRun(front, rep, i) ==
    /\ i + 1 <= Len(term)
    /\ term[i].op = "moveTo"
    /\ term[i + 1].op = "write"
    /\ LET k == <<term[i].x - 1, term[i].y - 1>>
           data == term[i + 1].data
       IN /\ k \in rep
          /\ LET n == Len(data) - Len(front.buffer[k].ansi) - Len(ResetAnsi)
             IN /\ n >= 1
                /\ \A j \in 1..n : <<k[1] + j - 1, k[2]>> \in rep
                /\ data = front.buffer[k].ansi \o RunGlyphs(front, k, n) \o ResetAnsi

\* C31: the emitted output, received by a terminal, shows each change's
\* glyph with its style at row y+1, column x+1, and leaves every other
\* coordinate as it was; after the cursor set-up the output is a sequence of
\* runs, each one cursor move, the style once, the glyphs and one reset
C31_ChangesPlacedAndNothingElse ==
    DiffReturned =>
        LET rep == Changes(Front, Back)
            shown == Display(Marked, term)
        IN /\ DOMAIN shown = DOMAIN Marked
           /\ \A k \in DOMAIN shown :
                 shown[k] = IF k \in rep THEN Visible(Front.buffer[k]) ELSE Mark
           /\ term[1] = Write(CursorSetup)
           /\ Len(term) % 2 = 1
           /\ \A i \in 2..Len(term) : i % 2 = 0 => IsRun(Front, rep, i)

\* a frame of two changes in two runs, one of them away from column 0, has
\* been emitted
C31_Witness ==
    /\ DiffReturned
    /\ returned = 2
    /\ Len(term) = 5
    /\ \E k \in Changes(Front, Back) : k[1] > k[2]

\* C32: a space of empty style in front is emitted, as a space of empty
\* style, exactly where back holds a cell of another glyph or style, and
\* not where back holds nothing; the count returned is the number of
\* coordinates emitted
C32_BlankSkippedOnlyOnFree ==
    DiffReturned =>
        /\ returned = Cardinality(DOMAIN Printed(term))
        /\ \A k \in DOMAIN Front.buffer :
              Visible(Front.buffer[k]) = Blank =>
                 /\ k \in DOMAIN Printed(term)
                       <=> (k \in DOMAIN Back.buffer /\ Visible(Back.buffer[k]) # Blank)
                 /\ k \in DOMAIN Printed(term) => Printed(term)[k] = Blank

\* a space of empty style has replaced a cell of back, and has been counted
\* and emitted
C32_Witness ==
    /\ DiffReturned
    /\ returned = 1
    /\ \E k \in DOMAIN Front.buffer \cap DOMAIN Back.buffer :
          /\ Visible(Front.buffer[k]) = Blank
          /\ Visible(Back.buffer[k]) # Blank
          /\ k \in DOMAIN Printed(term)

----------------------------------------------------------------------------
(* Claims about the pacing of render() (SpecLife)                           *)

\* C33: the clock never goes back; a frame reaches the diff at least
\* renderSkipThreshold after the frame before it, the time of the last frame
\* being recorded by the frame and changed by nothing else; and a render()
\* on an initialized controller adds one to exactly one of totalRenders and
\* skipRenderCount, which nothing else changes
C33_FramesApartAndCallsCounted ==
    [][ /\ clock' >= clock
        /\ IF RenderStep /\ call'.case = "rendered"
           THEN /\ lastRenderTime' = clock'
                /\ totalRenders >= 1 => clock' - lastRenderTime >= renderSkipThreshold
           ELSE lastRenderTime' = lastRenderTime
        /\ IF RenderStep /\ isInitialized
           THEN \/ /\ totalRenders' = totalRenders + 1
                   /\ skipRenderCount' = skipRenderCount
                   /\ call'.case = "rendered"
                \/ /\ totalRenders' = totalRenders
                   /\ skipRenderCount' = skipRenderCount + 1
                   /\ call'.case = "skipped"
           ELSE UNCHANGED <<totalRenders, skipRenderCount>>
      ]_vars

\* a second frame has reached the diff, a render() in between having been
\* skipped
C33_Witness ==
    /\ RenderReturned /\ call.case = "rendered"
    /\ totalRenders = 2
    /\ skipRenderCount = 1
    /\ lastRenderTime = clock

----------------------------------------------------------------------------
(* Claims about the frames of the loop (SpecLoop)                           *)

\* C34: the loop never goes more than maxFrameSkip iterations in a row
\* without calling GameLoop.render for being behind schedule
C34_RenderWithinMaxFrameSkip ==
    loop.made => loop.behindRun <= maxFrameSkip

\* the glyph of the map tile, as the terminal shows it
TileShown == [char |-> "░", ansi |-> NoAnsi]

\* C35: after every frame the loop emits, each cell of the scene row that
\* neither the player nor the elk covers shows the map tile
C35_MapShowsWhereNoEntityIs ==
    (loop.made /\ loop.isRunning /\ term # <<>>) =>
        \A x \in 0..(LoopWidth - 1) :
           (x # loop.characterX /\ x # NpcX) => Shown(<<x, SceneY>>) = TileShown

----------------------------------------------------------------------------
(* MovementController on its own: key presses, the auto-release timeouts,   *)
(* updateMovement and reset, on a terminal of a fixed size.                 *)

\* spriteWidth and spriteHeight of processMovement, movementStep, and the
\* position the constructor sets
spriteWidth == 32
spriteHeight == 22
movementStep == 2
StartX == 10
StartY == 5

\* the movement keys handleKeyPress maps the key names to
ArrowKeys == {"LEFT", "RIGHT", "UP", "DOWN"}

\* the terminal sizes followed: one with room around the start position,
\* one of 80 x 24
MoveSizes == { [width |-> 44, height |-> 31], [width |-> 80, height |-> 24] }

\* the elements of a sequence
Elements(q) == {q[i] : i \in DOMAIN q}

\* Set.prototype.add and Set.prototype.delete, the Set being kept in its
\* insertion order
SetAdd(q, key) == IF key \in Elements(q) THEN q ELSE Append(q, key)
SetDelete(q, key) == SelectSeq(q, LAMBDA k : k # key)

\* new MovementController(): keyTimers counts, per key, the pending
\* timeouts set for it
MovementController ==
    [made |-> TRUE, characterX |-> StartX, characterY |-> StartY,
     pressedKeys |-> <<>>, keyTimeouts |-> {},
     keyTimers |-> [key \in ArrowKeys |-> 0],
     direction |-> "down", isMoving |-> FALSE]

\* TerminalRender.constrainPosition
constrainPosition(size, x, y) ==
    [x |-> Max(0, Min(size.width - spriteWidth, x)),
     y |-> Max(0, Min(size.height - spriteHeight - 3, y))]

\* processMovement without the call of constrainPosition
processMovementUnconstrained(mc, key, size) ==
    CASE key = "LEFT" ->
           [mc EXCEPT !.characterX = Max(0, @ - movementStep), !.direction = "left"]
      [] key = "RIGHT" ->
           [mc EXCEPT !.characterX = Min(size.width - spriteWidth, @ + movementStep),
                      !.direction = "right"]
      [] key = "UP" ->
           [mc EXCEPT !.characterY = Max(0, @ - 1), !.direction = "up"]
      [] OTHER ->
           [mc EXCEPT !.characterY = Min(size.height - spriteHeight - 3, @ + 1),
                      !.direction = "down"]

\* MovementController.processMovement
processMovement(mc, key, size) ==
    LET moved == processMovementUnconstrained(mc, key, size)
        constrained == constrainPosition(size, moved.characterX, moved.characterY)
    IN [moved EXCEPT !.characterX = constrained.x, !.characterY = constrained.y]

\* the loop of updateMovement over the pressed keys, from the i-th on
RECURSIVE processKeys(_, _, _, _)
processKeys(mc, keys, i, size) ==
    IF i > Len(keys) THEN mc
    ELSE processKeys(processMovement(mc, keys[i], size), keys, i + 1, size)

\* MovementController.updateMovement: moveDue is the test of movementSpeed,
\* stopDue that of MOVEMENT_TIMEOUT (shouldStopMoving)
movementUpdate(mc, size, moveDue, stopDue) ==
    LET moved == IF mc.pressedKeys # <<>> /\ moveDue
                 THEN processKeys(mc, mc.pressedKeys, 1, size) ELSE mc
        changed == moved.characterX # mc.characterX \/ moved.characterY # mc.characterY
        isMoving == mc.isMoving \/ changed
    IN [moved EXCEPT !.isMoving = isMoving /\ ~(stopDue /\ ~changed)]

\* handleMovementKey that leaves the key's earlier timeout pending
handleMovementKeyKeepingTimeout(mc, key) ==
    [mc EXCEPT !.keyTimers[key] = @ + 1,
               !.pressedKeys = SetAdd(@, key),
               !.keyTimeouts = @ \cup {key}]

\* MovementController.handleMovementKey: the key's earlier timeout is
\* cleared, the key added and a new timeout set
handleMovementKey(mc, key) ==
    [mc EXCEPT !.keyTimers[key] = (IF key \in mc.keyTimeouts THEN @ - 1 ELSE @) + 1,
               !.pressedKeys = SetAdd(@, key),
               !.keyTimeouts = @ \cup {key}]

\* the callback of a key's timeout
keyTimeoutFires(mc, key) ==
    LET pressed == SetDelete(mc.pressedKeys, key)
    IN [mc EXCEPT !.keyTimers[key] = @ - 1,
                  !.pressedKeys = pressed,
                  !.keyTimeouts = @ \ {key},
                  !.isMoving = @ /\ pressed # <<>>]

\* MovementController.reset(): every timeout is cleared
movementReset(mc) ==
    [mc EXCEPT !.pressedKeys = <<>>,
               !.keyTimers = [key \in ArrowKeys |->
                                 IF key \in mc.keyTimeouts THEN @[key] - 1 ELSE @[key]],
               !.keyTimeouts = {},
               !.direction = "down", !.isMoving = FALSE]

\* only `movement` changes
MovementOnly ==
    UNCHANGED <<buffers, currentBuffer, previousBuffer, isInitialized,
                lastRenderTime, totalRenders, changeCount, skipRenderCount, clock,
                term, returned, threw, call, hist, screen, termSize, sinceResize,
                loop, frameBuffer, npcManager>>

MoveInit ==
    /\ buffers = [id \in {1, 2} |-> Buffer(Width, Height)]
    /\ currentBuffer = 1
    /\ previousBuffer = 2
    /\ isInitialized = TRUE
    /\ lastRenderTime = 0
    /\ totalRenders = 0
    /\ changeCount = 0
    /\ skipRenderCount = 0
    /\ clock = 0
    /\ term = <<>>
    /\ returned = 0
    /\ threw = FALSE
    /\ call = NoCall
    /\ hist = EmptyMap
    /\ screen = EmptyMap
    /\ termSize \in MoveSizes
    /\ sinceResize = "none"
    /\ loop = NoLoop
    /\ frameBuffer = NoFrameBuffer
    /\ npcManager = NoNPCManager
    /\ movement = MovementController

MoveKeyPress ==
    /\ \E key \in ArrowKeys : movement' = handleMovementKey(movement, key)
    /\ MovementOnly

MoveKeyTimeout ==
    /\ \E key \in ArrowKeys :
          /\ movement.keyTimers[key] > 0
          /\ movement' = keyTimeoutFires(movement, key)
    /\ MovementOnly

UpdateMovement ==
    /\ \E moveDue \in BOOLEAN, stopDue \in BOOLEAN :
          movement' = movementUpdate(movement, termSize, moveDue, stopDue)
    /\ MovementOnly

MoveReset ==
    /\ movement' = movementReset(movement)
    /\ MovementOnly

MoveNext ==
    \/ MoveKeyPress
    \/ MoveKeyTimeout
    \/ UpdateMovement
    \/ MoveReset

SpecMove == MoveInit /\ [][MoveNext]_vars

----------------------------------------------------------------------------
(* Claims about the movement controller (SpecMove)                          *)

\* C36: the character's position is within 0..max(0, terminalWidth - 32)
\* and 0..max(0, terminalHeight - 22 - 3) in every state of the controller,
\* from construction on
C36_PositionWithinTerminal ==
    movement.made =>
        /\ 0 <= movement.characterX
        /\ movement.characterX <= Max(0, termSize.width - spriteWidth)
        /\ 0 <= movement.characterY
        /\ movement.characterY <= Max(0, termSize.height - spriteHeight - 3)

\* pressedKeys and keyTimeouts hold the same keys, and a key has one
\* pending timeout if it is among them and none otherwise
KeysAndTimeoutsAgree(mc) ==
    /\ Elements(mc.pressedKeys) = mc.keyTimeouts
    /\ \A key \in ArrowKeys :
          mc.keyTimers[key] = IF key \in mc.keyTimeouts THEN 1 ELSE 0

\* C37: whatever the interleaving of key presses, timeouts and reset(),
\* pressedKeys and keyTimeouts hold the same keys and each of them has
\* exactly one pending timeout (a press replaces the key's timeout); a key
\* leaves pressedKeys exactly in a step in which its one pending timeout
\* goes (it fires, or reset() clears it), and a press keeps the key pressed
C37_OneTimeoutPerPressedKey ==
    [][ /\ KeysAndTimeoutsAgree(movement)
        /\ KeysAndTimeoutsAgree(movement')
        /\ \A key \in ArrowKeys :
              /\ (key \in Elements(movement.pressedKeys)
                    /\ key \notin Elements(movement'.pressedKeys))
                 <=> movement'.keyTimers[key] < movement.keyTimers[key]
              /\ movement'.keyTimers[key] > movement.keyTimers[key]
                    => key \in Elements(movement'.pressedKeys)
      ]_vars

\* two keys are held, each with its timeout pending, and the character has
\* moved
C37_Witness ==
    /\ movement.made
    /\ Len(movement.pressedKeys) = 2
    /\ movement.keyTimers["LEFT"] = 1
    /\ movement.keyTimers["UP"] = 1
    /\ movement.isMoving
    /\ movement.characterX < StartX

----------------------------------------------------------------------------
(* NPCManager on its own: addNPC, removeNPC, NPC.setPosition and clear      *)

\* NPCManager.gridSize
gridSize == 10

\* at most MaxNpcs NPCs are ever added
MaxNpcs == 2

\* the positions given to addNPC and NPC.setPosition: three columns, the
\* last of them in another cell of the spatial grid
NpcPositions == { <<0, 0>>, <<gridSize - 1, 0>>, <<gridSize, 0>> }

\* new NPCManager(): `objects` holds the position of every NPC object made
\* (a removed NPC is still an object), `npcs` the ids of the npcs map, and
\* spatialGrid maps a grid key to the set of NPC objects of the cell
NPCManager ==
    [made |-> TRUE, objects |-> EmptyMap, npcs |-> {}, nextId |-> 1,
     spatialGrid |-> EmptyMap]

\* NPCManager.getGridKey
getGridKey(x, y) == <<x \div gridSize, y \div gridSize>>

\* the grid key of the position NPC object id has now
KeyOf(nm, id) == getGridKey(nm.objects[id][1], nm.objects[id][2])

\* NPCManager.updateSpatialGrid
updateSpatialGrid(nm, id) ==
    LET key == KeyOf(nm, id)
        cell == IF key \in DOMAIN nm.spatialGrid THEN nm.spatialGrid[key] ELSE {}
    IN [nm EXCEPT !.spatialGrid = MapSet(@, key, cell \cup {id})]

\* NPCManager.removeFromSpatialGrid
removeFromSpatialGrid(nm, id) ==
    LET key == KeyOf(nm, id)
    IN IF key \notin DOMAIN nm.spatialGrid THEN nm
       ELSE LET cell == nm.spatialGrid[key] \ {id}
            IN [nm EXCEPT !.spatialGrid =
                   IF cell = {}
                   THEN [k \in DOMAIN @ \ {key} |-> @[k]]
                   ELSE MapSet(@, key, cell)]

\* NPCManager.addNPC('elk', x, y)
addNPC(nm, x, y) ==
    LET id == nm.nextId
        added == [nm EXCEPT !.objects = MapSet(@, id, <<x, y>>),
                            !.npcs = @ \cup {id},
                            !.nextId = @ + 1]
    IN updateSpatialGrid(added, id)

\* NPCManager.removeNPC(id)
removeNPC(nm, id) ==
    IF id \in nm.npcs
    THEN [removeFromSpatialGrid(nm, id) EXCEPT !.npcs = @ \ {id}]
    ELSE nm

\* NPC.setPosition(x, y) on NPC object id
npcSetPosition(nm, id, x, y) == [nm EXCEPT !.objects[id] = <<x, y>>]

\* NPCManager.clear()
npcClear(nm) == [nm EXCEPT !.npcs = {}, !.spatialGrid = EmptyMap]

\* NPCManager.getNPCsAt(x, y), as the set of the ids returned
getNPCsAt(nm, x, y) ==
    LET key == getGridKey(x, y)
    IN IF key \notin DOMAIN nm.spatialGrid THEN {}
       ELSE {id \in nm.spatialGrid[key] : nm.objects[id] = <<x, y>>}

\* NPCManager.getNPCsInArea(x1, y1, x2, y2), as the set of the ids returned
getNPCsInArea(nm, x1, y1, x2, y2) ==
    LET keys == { <<gx, gy>> : gx \in (x1 \div gridSize)..(x2 \div gridSize),
                               gy \in (y1 \div gridSize)..(y2 \div gridSize) }
    IN UNION { {id \in nm.spatialGrid[key] :
                   /\ nm.objects[id][1] >= x1 /\ nm.objects[id][1] <= x2
                   /\ nm.objects[id][2] >= y1 /\ nm.objects[id][2] <= y2}
               : key \in keys \cap DOMAIN nm.spatialGrid }

\* only `npcManager` changes
NpcOnly ==
    UNCHANGED <<buffers, currentBuffer, previousBuffer, isInitialized,
                lastRenderTime, totalRenders, changeCount, skipRenderCount, clock,
                term, returned, threw, call, hist, screen, termSize, sinceResize,
                loop, frameBuffer, movement>>

NpcManagerInit ==
    /\ buffers = [id \in {1, 2} |-> Buffer(Width, Height)]
    /\ currentBuffer = 1
    /\ previousBuffer = 2
    /\ isInitialized = TRUE
    /\ lastRenderTime = 0
    /\ totalRenders = 0
    /\ changeCount = 0
    /\ skipRenderCount = 0
    /\ clock = 0
    /\ term = <<>>
    /\ returned = 0
    /\ threw = FALSE
    /\ call = NoCall
    /\ hist = EmptyMap
    /\ screen = EmptyMap
    /\ termSize = [width |-> Width, height |-> Height + 3]
    /\ sinceResize = "none"
    /\ loop = NoLoop
    /\ frameBuffer = NoFrameBuffer
    /\ movement = NoMovement
    /\ npcManager = NPCManager

AddNPC ==
    /\ npcManager.nextId <= MaxNpcs
    /\ \E p \in NpcPositions : npcManager' = addNPC(npcManager, p[1], p[2])
    /\ NpcOnly

RemoveNPC ==
    /\ \E id \in 1..MaxNpcs : npcManager' = removeNPC(npcManager, id)
    /\ NpcOnly

NpcSetPosition ==
    /\ \E id \in npcManager.npcs, p \in NpcPositions :
          npcManager' = npcSetPosition(npcManager, id, p[1], p[2])
    /\ NpcOnly

NpcClear ==
    /\ npcManager' = npcClear(npcManager)
    /\ NpcOnly

NpcNext ==
    \/ AddNPC
    \/ RemoveNPC
    \/ NpcSetPosition
    \/ NpcClear

SpecNpc == NpcManagerInit /\ [][NpcNext]_vars

----------------------------------------------------------------------------
(* Claims about the NPC manager (SpecNpc)                                   *)

\* the NPC objects held in the spatial grid
InGrid(nm) == UNION {nm.spatialGrid[key] : key \in DOMAIN nm.spatialGrid}

\* C38: the spatial grid holds exactly the NPCs of the npcs map, each in
\* the cell of its position, so that getNPCsAt(x, y) returns exactly the
\* NPCs at (x, y), and getNPCsInArea returns no NPC that has been removed
C38_GridHoldsThePresentNpcs ==
    npcManager.made =>
        /\ InGrid(npcManager) = npcManager.npcs
        /\ \A key \in DOMAIN npcManager.spatialGrid :
              \A id \in npcManager.spatialGrid[key] : KeyOf(npcManager, id) = key
        /\ \A p \in NpcPositions :
              getNPCsAt(npcManager, p[1], p[2])
                 = {id \in npcManager.npcs : npcManager.objects[id] = p}
        /\ getNPCsInArea(npcManager, 0, 0, gridSize, 0) \subseteq npcManager.npcs

====
